---- MODULE Spec2Model ----
(***************************************************************************)
(* Product-Scanner: the text/image -> product record pipeline of           *)
(* src/lib/productParser.ts and its HTTP boundary src/app/api/scan/route.ts *)
(*                                                                         *)
(* JavaScript values are tagged records [t |-> tag, v |-> payload]:        *)
(*   undefined, null, string, number, boolean, array (a sequence of        *)
(*   values) and object (a function from property names to values).        *)
(***************************************************************************)
EXTENDS Integers, Sequences, FiniteSets, TLC

VARIABLES
  pc,             \* position of the invocation: "idle", "awaitBase64", "awaitGateway", "done"
  caller,         \* who started the invocation: "none", "direct", "route"
  mode,           \* "none", "text" (parseProductText), "image" (parseProductImage)
  apiKey,         \* the credential argument / environment value
  ocrText,        \* the ocrText form field / argument
  file,           \* the image form field
  gatewayCalls,   \* chat/completion requests issued by this invocation
  gatewayOutcome, \* how the gateway call settled
  flattened,      \* the value of `flattened`, or the exception thrown before its assignment
  result,         \* completion of parseProductText / parseProductImage
  response,       \* the HTTP response of route POST
  client,         \* the page's scan flow (processImage): its position and what it holds
  sent,           \* the requests the page has sent to /api/scan, oldest first
  calls,          \* concurrent invocations: invocation id -> its local state
  ocr,            \* src/lib/ocr.ts: the cached worker, the workers created, the calls in progress
  scans,          \* the page with overlapping processImage invocations
  camera          \* the CameraCapture component

vars == <<pc, caller, mode, apiKey, ocrText, file, gatewayCalls,
          gatewayOutcome, flattened, result, response, client, sent, calls, ocr, scans, camera>>

-----------------------------------------------------------------------------
(* JavaScript values                                                       *)

Undef == [t |-> "undef"]
Null == [t |-> "null"]
Str(s) == [t |-> "str", v |-> s]
Num(n) == [t |-> "num", v |-> n]
Bool(b) == [t |-> "bool", v |-> b]
Arr(s) == [t |-> "arr", v |-> s]
Obj(f) == [t |-> "obj", v |-> f]

\* An exception value: the error's name, message, and the status / code
\* properties the OpenAI client attaches to API errors.
Throw(name, message) == [t |-> "throw", name |-> name, message |-> message,
                         status |-> 0, code |-> ""]
IsThrow(x) == x.t = "throw"

EmptyObject == Obj(<< >>)

\* { k1: v1, ... } written from a function that maps absent keys to Undef.
ObjOf(f) == Obj([k \in {j \in DOMAIN f : f[j] # Undef} |-> f[k]])

\* ToBoolean: the truthiness test of `if (x)`, `!x`, `a || b`.
Truthy(x) ==
  CASE x.t = "undef" -> FALSE
    [] x.t = "null" -> FALSE
    [] x.t = "bool" -> x.v
    [] x.t = "num" -> x.v # 0
    [] x.t = "str" -> x.v # ""
    [] OTHER -> TRUE

\* Property read x.k / x[k] for a non-nullish x (a read on null or undefined
\* is a TypeError, which callers test for with IsNullish).
IsNullish(x) == x.t \in {"undef", "null"}

Get(x, k) ==
  IF x.t = "obj" /\ k \in DOMAIN x.v THEN x.v[k] ELSE Undef

\* a ?? b
Coalesce(a, b) == IF IsNullish(a) THEN b ELSE a

RECURSIVE ToStr(_)
RECURSIVE Join(_, _)

\* Array.prototype.join(sep): null and undefined elements become "".
Join(s, sep) ==
  IF Len(s) = 0 THEN ""
  ELSE LET h == IF IsNullish(Head(s)) THEN "" ELSE ToStr(Head(s))
       IN IF Len(s) = 1 THEN h ELSE h \o sep \o Join(Tail(s), sep)

\* String(x)
ToStr(x) ==
  CASE x.t = "str" -> x.v
    [] x.t = "num" -> ToString(x.v)
    [] x.t = "bool" -> IF x.v THEN "true" ELSE "false"
    [] x.t = "null" -> "null"
    [] x.t = "undef" -> "undefined"
    [] x.t = "arr" -> Join(x.v, ",")
    [] OTHER -> "[object Object]"

\* The own enumerable properties Object.assign copies from a source.
OwnProps(src) ==
  CASE src.t = "obj" -> src.v
    [] src.t = "arr" -> [k \in {ToString(i - 1) : i \in 1..Len(src.v)} |->
                           src.v[(CHOOSE i \in 1..Len(src.v) : ToString(i - 1) = k)]]
    [] src.t = "str" -> [k \in {ToString(i - 1) : i \in 1..Len(src.v)} |->
                           Str(SubSeq(src.v, (CHOOSE i \in 1..Len(src.v) : ToString(i - 1) = k),
                                             (CHOOSE i \in 1..Len(src.v) : ToString(i - 1) = k)))]
    [] OTHER -> << >>

\* Object.assign(target, src) on the property map of target.
ObjectAssign(target, src) == OwnProps(src) @@ target

\* target[k] = val on a property map.
SetProp(target, k, val) == (k :> val) @@ target

-----------------------------------------------------------------------------
(* flattenNestedData, src/lib/productParser.ts:5-65                        *)

BasicInformation == "Basic Information"
DatesBatch == "Dates & Batch"
IngredientsNutrition == "Ingredients & Nutrition"
ManufacturingRegulatory == "Manufacturing & Regulatory"
ContactInformation == "Contact Information"
OtherDetails == "Other Details"

GroupKeys == {BasicInformation, DatesBatch, IngredientsNutrition,
              ManufacturingRegulatory, ContactInformation, OtherDetails}

\* The test of line 7 with || between the two headings.
IsFlat_EitherHeadingMissing(data) ==
  \/ Truthy(Get(data, "name"))
  \/ Truthy(Get(data, "company"))
  \/ ~Truthy(Get(data, BasicInformation))
  \/ ~Truthy(Get(data, DatesBatch))

\* The test of line 7: the data is returned as-is.
IsFlat(data) ==
  \/ Truthy(Get(data, "name"))
  \/ Truthy(Get(data, "company"))
  \/ (~Truthy(Get(data, BasicInformation)) /\ ~Truthy(Get(data, DatesBatch)))

\* Lines 20-22 are missing: "Dates & Batch" is not merged.
FlattenMerged_BasicOnly(data) ==
  IF Truthy(Get(data, BasicInformation))
  THEN ObjectAssign(<< >>, Get(data, BasicInformation)) ELSE << >>

\* Lines 15-22: the two merged groups.
FlattenMerged(data) ==
  LET f1 == IF Truthy(Get(data, BasicInformation))
            THEN ObjectAssign(<< >>, Get(data, BasicInformation)) ELSE << >>
  IN IF Truthy(Get(data, DatesBatch))
     THEN ObjectAssign(f1, Get(data, DatesBatch)) ELSE f1

\* Lines 25-33.
FlattenIngredients(data, f) ==
  LET ingredientsNutrition == Get(data, IngredientsNutrition)
      f1 == IF Truthy(ingredientsNutrition) /\ Truthy(Get(ingredientsNutrition, "ingredients"))
            THEN SetProp(f, "ingredients", Get(ingredientsNutrition, "ingredients")) ELSE f
  IN IF Truthy(ingredientsNutrition) /\ Truthy(Get(ingredientsNutrition, "nutritionalInfo"))
     THEN SetProp(f1, "nutritionalInfo", Get(ingredientsNutrition, "nutritionalInfo")) ELSE f1

\* join() with its default separator.
FssaiToString_DefaultSeparator(lic) ==
  IF lic.t = "arr" THEN Join(lic.v, ",") ELSE ToStr(lic)

\* Lines 43-45: the fssaiLicense conversion.
FssaiToString(lic) == IF lic.t = "arr" THEN Join(lic.v, ", ") ELSE ToStr(lic)

\* Lines 36-50 with `'vegetarian' in manufacturing` for the test of line 47.
FlattenManufacturing_PresenceCheck(data, f) ==
  LET manufacturing == Get(data, ManufacturingRegulatory)
      f1 == IF Truthy(manufacturing) /\ Truthy(Get(manufacturing, "manufacturingAddresses"))
            THEN SetProp(f, "manufacturingAddresses", Get(manufacturing, "manufacturingAddresses"))
            ELSE f
      f2 == IF Truthy(manufacturing) /\ Truthy(Get(manufacturing, "fssaiLicense"))
            THEN SetProp(f1, "fssaiLicense", Str(FssaiToString(Get(manufacturing, "fssaiLicense"))))
            ELSE f1
  IN IF Truthy(manufacturing) /\ manufacturing.t = "obj" /\ "vegetarian" \in DOMAIN manufacturing.v
     THEN SetProp(f2, "vegetarian", Str(ToStr(Get(manufacturing, "vegetarian")))) ELSE f2

\* Lines 36-50.
FlattenManufacturing(data, f) ==
  LET manufacturing == Get(data, ManufacturingRegulatory)
      f1 == IF Truthy(manufacturing) /\ Truthy(Get(manufacturing, "manufacturingAddresses"))
            THEN SetProp(f, "manufacturingAddresses", Get(manufacturing, "manufacturingAddresses"))
            ELSE f
      f2 == IF Truthy(manufacturing) /\ Truthy(Get(manufacturing, "fssaiLicense"))
            THEN SetProp(f1, "fssaiLicense", Str(FssaiToString(Get(manufacturing, "fssaiLicense"))))
            ELSE f1
  IN IF Truthy(manufacturing) /\ Truthy(Get(manufacturing, "vegetarian"))
     THEN SetProp(f2, "vegetarian", Str(ToStr(Get(manufacturing, "vegetarian")))) ELSE f2

\* Lines 53-56 are missing: consumerContact is not lifted.
FlattenContact_NotLifted(data, f) == f

\* Lines 53-56.
FlattenContact(data, f) ==
  LET contactInfo == Get(data, ContactInformation)
  IN IF Truthy(contactInfo) /\ Truthy(Get(contactInfo, "consumerContact"))
     THEN SetProp(f, "consumerContact", Get(contactInfo, "consumerContact")) ELSE f

\* Lines 59-62, and the "Dates & Batch" group is also kept under its heading.
FlattenOther_KeepsDatesGroup(data, f) ==
  LET otherDetails == Get(data, OtherDetails)
      f1 == IF Truthy(otherDetails) /\ Truthy(Get(otherDetails, "otherDetails"))
            THEN SetProp(f, "otherDetails", Get(otherDetails, "otherDetails")) ELSE f
  IN IF Truthy(Get(data, DatesBatch))
     THEN SetProp(f1, DatesBatch, Get(data, DatesBatch)) ELSE f1

\* Lines 59-62.
FlattenOther(data, f) ==
  LET otherDetails == Get(data, OtherDetails)
  IN IF Truthy(otherDetails) /\ Truthy(Get(otherDetails, "otherDetails"))
     THEN SetProp(f, "otherDetails", Get(otherDetails, "otherDetails")) ELSE f

\* Lines 7-9 are missing: every object is rebuilt from its groups.
flattenNestedData_AlwaysRebuild(data) ==
  IF IsNullish(data)
  THEN Throw("TypeError", "Cannot read properties of null (reading 'name')")
  ELSE Obj(FlattenOther(data,
             FlattenContact(data,
               FlattenManufacturing(data,
                 FlattenIngredients(data, FlattenMerged(data))))))

\* Lines 5-65.
flattenNestedData(data) ==
  IF IsNullish(data)
  THEN Throw("TypeError", "Cannot read properties of null (reading 'name')")
  ELSE IF IsFlat(data) THEN data
  ELSE Obj(FlattenOther(data,
             FlattenContact(data,
               FlattenManufacturing(data,
                 FlattenIngredients(data, FlattenMerged(data))))))

\* Writes to objects.  The objects of one call are named: "parsed" is the
\* value JSON.parse returned, "flattened" the object created at line 12,
\* "record" the object the call returns when it is a new one.  A write names
\* its target and the properties it sets.
Write(target, props) == [obj |-> target, props |-> props]

RECURSIVE StoreAfter(_, _, _)
\* The properties of object `name`, which held `props`, after the writes.
StoreAfter(name, props, writes) ==
  IF Len(writes) = 0 THEN props
  ELSE StoreAfter(name,
                  IF Head(writes).obj = name THEN Head(writes).props @@ props ELSE props,
                  Tail(writes))

\* The flattening is done in place: the targets of lines 16-61 are `data`.
FlattenTarget_InPlace(data) == "parsed"

\* Line 12 and the left-hand sides of lines 16, 21, 28, 31, 39, 43, 48, 55,
\* 61: every assignment of flattenNestedData is to the new object.
FlattenTarget(data) == "flattened"

\* The object flattenNestedData returns: its argument (line 8) or the new
\* object (line 64).
FlattenReturns(data) == IF IsFlat(data) THEN "parsed" ELSE "flattened"

\* Lines 7-62: the writes of flattenNestedData(data), in order.
FlattenWrites(data) ==
  IF IsNullish(data) \/ IsFlat(data) THEN << >>
  ELSE <<Write(FlattenTarget(data), FlattenMerged(data)),
         Write(FlattenTarget(data), FlattenIngredients(data, << >>)),
         Write(FlattenTarget(data), FlattenManufacturing(data, << >>)),
         Write(FlattenTarget(data), FlattenContact(data, << >>)),
         Write(FlattenTarget(data), FlattenOther(data, << >>))>>

-----------------------------------------------------------------------------
(* ProductSchema, src/lib/productParser.ts:67-112                          *)

StringFields == {"name", "company", "manufacturer", "expiryDate", "bestBefore",
                 "mrp", "price", "netWeight", "batchNumber", "manufacturingDate",
                 "barcode", "fssaiLicense", "vegetarian", "trademark"}
ArrayFields == {"ingredients", "manufacturingAddresses"}
NutrientFields == {"energy", "protein", "totalCarbohydrate", "sugars", "totalFat",
                   "saturatedFat", "transFat", "sodium", "servingSize"}
ContactFields == {"phone", "email", "address", "website"}
CanonicalFields == StringFields \cup ArrayFields \cup
                   {"nutritionalInfo", "consumerContact", "otherDetails"}

\* The fields the prompt lists under each category heading (lines 139-181).
BasicFields == {"name", "company", "manufacturer", "trademark", "barcode",
                "netWeight", "mrp", "price"}
DateFields == {"expiryDate", "bestBefore", "manufacturingDate", "batchNumber"}
NestedFields == {"nutritionalInfo", "consumerContact"}
SubFields(k) == IF k = "nutritionalInfo" THEN NutrientFields ELSE ContactFields

\* The result of running one zod schema on a value.
Valid(val) == [ok |-> TRUE, val |-> val]
Invalid == [ok |-> FALSE, val |-> Undef]

\* z.string().nullish().transform(val => val ?? undefined)
nullishString(val) ==
  IF IsNullish(val) THEN Valid(Undef)
  ELSE IF val.t = "str" THEN Valid(val) ELSE Invalid

\* z.array(z.string()).nullish().transform(val => val ?? undefined)
nullishArray(val) ==
  IF IsNullish(val) THEN Valid(Undef)
  ELSE IF val.t = "arr" /\ \A i \in 1..Len(val.v) : val.v[i].t = "str"
       THEN Valid(val) ELSE Invalid

\* z.record(z.string(), z.string()).nullish().transform(val => val ?? undefined)
nullishRecord(val) ==
  IF IsNullish(val) THEN Valid(Undef)
  ELSE IF val.t = "obj" /\ \A k \in DOMAIN val.v : val.v[k].t = "str"
       THEN Valid(val) ELSE Invalid

\* z.object({ k: nullishString() for k in keys }).nullish().transform(...):
\* unknown keys are stripped; a key of the shape is set in the output when it
\* is present in the input.
nullishStringObject(keys, val) ==
  IF IsNullish(val) THEN Valid(Undef)
  ELSE IF val.t = "obj" /\ \A k \in keys : nullishString(Get(val, k)).ok
       THEN Valid(Obj([k \in keys \cap DOMAIN val.v |-> nullishString(val.v[k]).val]))
       ELSE Invalid

\* The schema of one field of ProductSchema.
FieldSchema(k, val) ==
  CASE k \in StringFields -> nullishString(val)
    [] k \in ArrayFields -> nullishArray(val)
    [] k = "nutritionalInfo" -> nullishStringObject(NutrientFields, val)
    [] k = "consumerContact" -> nullishStringObject(ContactFields, val)
    [] OTHER -> nullishRecord(val)

\* The schema with .passthrough(): unknown keys are kept.
ProductSchema_safeParse_Passthrough(x) ==
  IF x.t = "obj" /\ \A k \in CanonicalFields : FieldSchema(k, Get(x, k)).ok
  THEN [success |-> TRUE,
        data |-> Obj([k \in DOMAIN x.v |->
                        IF k \in CanonicalFields THEN FieldSchema(k, x.v[k]).val ELSE x.v[k]])]
  ELSE [success |-> FALSE, data |-> Undef]

\* ProductSchema.safeParse(x): { success, data }.
ProductSchema_safeParse(x) ==
  IF x.t = "obj" /\ \A k \in CanonicalFields : FieldSchema(k, Get(x, k)).ok
  THEN [success |-> TRUE,
        data |-> Obj([k \in CanonicalFields \cap DOMAIN x.v |-> FieldSchema(k, x.v[k]).val])]
  ELSE [success |-> FALSE, data |-> Undef]

-----------------------------------------------------------------------------
(* parseProductText / parseProductImage, src/lib/productParser.ts:120-416  *)

\* Lines 233-254 and 369-390: the record built when validation fails.
BestEffortField(flat, k) ==
  IF k \in {"nutritionalInfo", "consumerContact"}
  THEN Get(flat, k)
  ELSE Coalesce(Get(flat, k), Undef)

BestEffortRecord(flat) == Obj([k \in CanonicalFields |-> BestEffortField(flat, k)])

\* Lines 260-280 and 394-414: the record of the catch block.
EmptyRecord == Obj([k \in CanonicalFields |-> Undef])

\* The content of a completion, response.choices[0]?.message?.content, is
\* undefined or null, or a text.  A text is well-formed JSON denoting a value,
\* or it is not JSON.
NoJson(text) == [t |-> "text", empty |-> text = "", wellFormed |-> FALSE, denotes |-> Undef]
JsonText(value) == [t |-> "text", empty |-> FALSE, wellFormed |-> TRUE, denotes |-> value]

\* !content (line 209)
ContentMissing(content) == IsNullish(content) \/ content.empty

\* JSON.parse(content) (line 214)
JSONparse(content) ==
  IF content.wellFormed THEN content.denotes
  ELSE Throw("SyntaxError", "Unexpected token")

\* How the awaited openai.chat.completions.create settles.
Resolved(content) == [kind |-> "resolved", content |-> content, status |-> 0, code |-> ""]
Rejected(status, code) == [kind |-> "rejected", content |-> Undef, status |-> status, code |-> code]
NotSettled == [kind |-> "none", content |-> Undef, status |-> 0, code |-> ""]

\* Completion of an async function.
Returned(value) == [kind |-> "return", value |-> value, status |-> 0, code |-> "", message |-> ""]
Thrown(message, status, code) ==
  [kind |-> "throw", value |-> Undef, status |-> status, code |-> code, message |-> message]
NoResult == [kind |-> "none", value |-> Undef, status |-> 0, code |-> "", message |-> ""]

\* The safeParse result is ignored and the fallback record always built.
ValidateOrExtract_AlwaysExtract(flat) == BestEffortRecord(flat)

\* Lines 220-255: from the flattened value to the returned record.
ValidateOrExtract(flat) ==
  IF ProductSchema_safeParse(flat).success
  THEN ProductSchema_safeParse(flat).data
  ELSE BestEffortRecord(flat)

\* Lines 223-254: the writes of validation and of best-effort extraction.
\* safeParse builds its output in a new object and the fallback record is an
\* object literal; neither assigns to a property of `flattened`.
ValidateWrites(flat) == <<Write("record", ValidateOrExtract(flat).v)>>

\* route.ts:44 and 131-136: the route reads the record (Object.values, JSON
\* serialization) and assigns to none of its properties.
RouteWrites == << >>

\* Validation is run on the decoded value: flattenNestedData is not called.
FlattenedOf_SkipNormalize(outcome) ==
  IF outcome.kind = "rejected" THEN Throw("APIError", "gateway")
  ELSE IF ContentMissing(outcome.content) THEN Throw("Error", "No response from OpenRouter")
  ELSE IF IsThrow(JSONparse(outcome.content)) THEN JSONparse(outcome.content)
  ELSE IF IsNullish(JSONparse(outcome.content)) THEN flattenNestedData(JSONparse(outcome.content))
  ELSE JSONparse(outcome.content)

\* Lines 208-220: the value of `flattened`, or the exception that sends the
\* invocation to the catch block.
FlattenedOf(outcome) ==
  IF outcome.kind = "rejected" THEN Throw("APIError", "gateway")
  ELSE IF ContentMissing(outcome.content) THEN Throw("Error", "No response from OpenRouter")
  ELSE IF IsThrow(JSONparse(outcome.content)) THEN JSONparse(outcome.content)
  ELSE flattenNestedData(JSONparse(outcome.content))

\* The catch block rethrows instead of returning the empty record.
AfterFlatten_Rethrow(flat) ==
  IF IsThrow(flat) THEN Thrown(flat.message, flat.status, flat.code)
  ELSE Returned(ValidateOrExtract(flat))

\* Lines 222-281 (and 358-415): from the value of `flattened`, or the
\* exception raised before it was assigned, to the completion of the function.
AfterFlatten(flat) ==
  IF IsThrow(flat) THEN Returned(EmptyRecord)
  ELSE Returned(ValidateOrExtract(flat))

\* Lines 190-281 (and 305-415): the try block after the awaited gateway call
\* settles, and its catch block.
ParseBody(outcome) == AfterFlatten(FlattenedOf(outcome))

\* One stage of a call: what it was given and what it produced (a value, or
\* the exception it raised).
Stage(name, in, out) == [stage |-> name, in |-> in, out |-> out]

\* A stage ended with an exception; safeParse reports failure in its result
\* and does not throw.
StageRaised(st) == IF st.stage = "validate" THEN FALSE ELSE IsThrow(st.out)

\* Lines 191-223 (and 306-359): the stages a call with a credential runs once
\* the gateway call has settled, in the order of the statements of the try
\* block; an exception ends the sequence.
StagesOf(input, outcome) ==
  LET content == IF outcome.kind = "rejected" THEN Throw("APIError", "gateway")
                 ELSE IF ContentMissing(outcome.content)
                      THEN Throw("Error", "No response from OpenRouter")
                 ELSE outcome.content
      s1 == <<Stage("gateway", input, content)>>
  IN IF IsThrow(content) THEN s1
     ELSE LET parsed == JSONparse(content)
              s2 == Append(s1, Stage("decode", content, parsed))
          IN IF IsThrow(parsed) THEN s2
             ELSE LET flat == flattenNestedData(parsed)
                      s3 == Append(s2, Stage("normalize", parsed, flat))
                  IN IF IsThrow(flat) THEN s3
                     ELSE Append(s3, Stage("validate", flat, ProductSchema_safeParse(flat)))

\* Lines 345-356: the value of `flattened` in parseProductImage, or the
\* exception that sends the call to its catch block.
FlattenedOfImage(outcome) ==
  IF outcome.kind = "rejected" THEN Throw("APIError", "gateway")
  ELSE IF ContentMissing(outcome.content) THEN Throw("Error", "No response from OpenRouter")
  ELSE IF IsThrow(JSONparse(outcome.content)) THEN JSONparse(outcome.content)
  ELSE flattenNestedData(JSONparse(outcome.content))

\* parseProductImage without lines 369-390: a flattened value that fails
\* validation gives the empty record.
AfterFlattenImage_NoFallback(flat) ==
  IF IsThrow(flat) THEN Returned(EmptyRecord)
  ELSE IF ProductSchema_safeParse(flat).success
       THEN Returned(ProductSchema_safeParse(flat).data)
  ELSE Returned(EmptyRecord)

\* Lines 358-415: from the value of `flattened` to the completion of
\* parseProductImage: strict validation (359-362), the fallback record
\* (369-390), the catch block (392-415).
AfterFlattenImage(flat) ==
  IF IsThrow(flat) THEN Returned(EmptyRecord)
  ELSE IF ProductSchema_safeParse(flat).success
       THEN Returned(ProductSchema_safeParse(flat).data)
  ELSE Returned(BestEffortRecord(flat))

\* Lines 305-415: the try block of parseProductImage after the awaited
\* gateway call settles, and its catch block.
ParseImageBody(outcome) == AfterFlattenImage(FlattenedOfImage(outcome))

-----------------------------------------------------------------------------
(* route POST, src/app/api/scan/route.ts:10-203                            *)

RawTextLimit == 1000

Whitespace == {" ", "\t", "\n", "\r"}

RECURSIVE TrimStart(_)
TrimStart(s) ==
  IF Len(s) > 0 /\ SubSeq(s, 1, 1) \in Whitespace THEN TrimStart(SubSeq(s, 2, Len(s))) ELSE s

RECURSIVE TrimEnd(_)
TrimEnd(s) ==
  IF Len(s) > 0 /\ SubSeq(s, Len(s), Len(s)) \in Whitespace
  THEN TrimEnd(SubSeq(s, 1, Len(s) - 1)) ELSE s

\* String.prototype.trim()
Trim(s) == TrimEnd(TrimStart(s))

\* s.substring(0, n)
Substring0(s, n) == IF Len(s) <= n THEN s ELSE SubSeq(s, 1, n)

\* NextResponse.json(body, { status })
Json(status, body) == [status |-> status, body |-> body]
NoResponse == [status |-> 0, body |-> Undef]

\* Line 27: ocrText && ocrText.trim().length > 0
HasOcrText(text) == Truthy(text) /\ Len(Trim(text.v)) > 0

\* The data of the raw-text fallbacks (lines 32-36, 55-59, 71-75, 87-91, 100-104).
RawTextData(text) ==
  Obj(("name" :> Undef) @@ ("company" :> Undef) @@
      ("rawText" :> Str(Substring0(text.v, RawTextLimit))))

RawTextFallback(text, message, code) ==
  Json(200, Obj(("success" :> Bool(TRUE)) @@ ("data" :> RawTextData(text)) @@
                ("message" :> Str(message)) @@ ("code" :> Str(code))))

\* Lines 30-38.
NoKeyTextResponse(text) ==
  Json(200, Obj(("success" :> Bool(TRUE)) @@ ("data" :> RawTextData(text)) @@
                ("message" :> Str("Gemini API key not configured. Add GEMINI_API_KEY for AI parsing."))))

\* Lines 114-120.
NoKeyImageResponse ==
  Json(400, Obj(("error" :> Str("Gemini API key not configured. Please add GEMINI_API_KEY to your environment variables.")) @@
                ("requiresApiKey" :> Bool(TRUE))))

RECURSIVE JSONstringify(_)
\* The body as NextResponse.json writes it: JSON.stringify leaves out the
\* properties whose value is undefined and writes undefined array elements
\* as null.
JSONstringify(x) ==
  CASE x.t = "obj" -> Obj([k \in {j \in DOMAIN x.v : x.v[j] # Undef} |-> JSONstringify(x.v[k])])
    [] x.t = "arr" -> Arr([i \in 1..Len(x.v) |->
                             IF x.v[i] = Undef THEN Null ELSE JSONstringify(x.v[i])])
    [] OTHER -> x

\* What the client receives: the status and the serialized body.
OnTheWire(resp) == [status |-> resp.status, body |-> JSONstringify(resp.body)]

Success(data) == Json(200, Obj(("success" :> Bool(TRUE)) @@ ("data" :> data)))

\* Lines 168-171.
NothingProvided == Json(400, Obj("error" :> Str("No image file or OCR text provided")))

IsAuthError(err) == err.status = 401 \/ err.status = 403
IsQuotaError(err) ==
  err.status = 429 \/ err.code = "insufficient_quota" \/ err.code = "RESOURCE_EXHAUSTED"

AuthFailed ==
  Json(401, Obj(("error" :> Str("Gemini API authentication failed. Please check your API key.")) @@
                ("code" :> Str("auth_failed"))))
QuotaExceeded ==
  Json(429, Obj(("error" :> Str("Gemini API quota exceeded. Please check your billing or try again later.")) @@
                ("code" :> Str("quota_exceeded"))))

\* Lines 172-202: the outer catch.
OuterCatch(err) ==
  IF IsAuthError(err) THEN AuthFailed
  ELSE IF IsQuotaError(err) THEN QuotaExceeded
  ELSE Json(500, Obj("error" :> Str(IF err.message # "" THEN err.message
                                    ELSE "Internal server error")))

\* Lines 41-108: after `await parseProductText(ocrText, geminiApiKey)`.
TextResponse(res, text) ==
  IF res.kind = "return" THEN Success(res.value)
  ELSE IF res.status = 404
       THEN RawTextFallback(text, "Gemini API model not found. The model name may be incorrect. Showing raw OCR text. Please check the model configuration.", "model_not_found")
  ELSE IF IsAuthError(res)
       THEN RawTextFallback(text, "Gemini API authentication failed. The API key may be invalid or expired. Showing raw OCR text. Please verify your API key at https://makersuite.google.com/app/apikey", "auth_failed")
  ELSE IF IsQuotaError(res)
       THEN RawTextFallback(text, "Gemini API quota exceeded. Showing raw OCR text. Please check your billing or try again later.", "quota_exceeded")
  ELSE RawTextFallback(text, "AI parsing failed. Showing raw OCR text.", "parsing_failed")

\* Lines 131-133: Object.values(productData).some(...)
HasData(productData) ==
  \E k \in DOMAIN productData.v :
     /\ productData.v[k] # Undef
     /\ productData.v[k] # Null
     /\ productData.v[k] # Str("")

\* Lines 128-171: after `await parseProductImage(base64, mimeType, geminiApiKey)`.
ImageResponse(res) ==
  IF res.kind = "return"
  THEN IF HasData(res.value) THEN Success(res.value) ELSE NothingProvided
  ELSE IF IsAuthError(res) THEN AuthFailed
  ELSE IF IsQuotaError(res) THEN QuotaExceeded
  ELSE OuterCatch(res)

-----------------------------------------------------------------------------
(* Inputs                                                                  *)

\* Longest array of strings the model lets the gateway return.
MaxArrayLen == 2

StrArrays(S) == {Arr(q) : q \in UNION {[1..n -> S] : n \in 0..MaxArrayLen}}

Energy == Obj("energy" :> Str("555 kcal"))
Phone == Obj(("phone" :> Str("1800")) @@ ("email" :> Null))
Origin == Obj("origin" :> Str("India"))

\* Objects with canonical fields at top level.
NameOpts == {Undef, Null, Str(""), Str("Choco Bar"), Num(5)}
MrpOpts == {Undef, Null, Str("Rs 50")}
IngredientsOpts == {Undef, Null, Str("Sugar"), Arr(<<Num(5)>>)}
                   \cup StrArrays({Str("Cocoa"), Str("Sugar")})
NutritionOpts == {Undef, Null, Energy,
                  Obj(("energy" :> Null) @@ ("protein" :> Str("5 g"))),
                  Obj("energy" :> Num(555)),
                  Obj(("energy" :> Str("555 kcal")) @@ ("calories" :> Str("555")))}
OtherOpts == {Undef, Origin, Obj("origin" :> Num(1))}
StrayGroupOpts == {Undef, Obj("consumerContact" :> Phone)}

FlatObject(n, m, i, nu, od, sg) ==
  ObjOf(("name" :> n) @@ ("mrp" :> m) @@ ("ingredients" :> i) @@
        ("nutritionalInfo" :> nu) @@ ("otherDetails" :> od) @@
        (ContactInformation :> sg))

\* Objects with category headings at top level.
TopOpts == {<<Undef, Undef>>, <<Str(""), Undef>>, <<Undef, Str("Acme")>>}
BasicOpts == {Undef, Null, EmptyObject,
              Obj("name" :> Str("Tea")),
              Obj(("name" :> Str("")) @@ ("mrp" :> Str("Rs 50"))),
              Obj(("company" :> Str("Acme")) @@ ("trademark" :> Null)),
              Obj(BasicInformation :> Obj("name" :> Str("Tea")))}
DatesOpts == {Undef,
              Obj("expiryDate" :> Str("2025-12-01")),
              Obj(("expiryDate" :> Str("")) @@ ("batchNumber" :> Str("B1"))),
              Obj("name" :> Str("Chai"))}
IngredientsGroupOpts ==
  {Undef,
   Obj(("ingredients" :> Arr(<<Str("Cocoa"), Str("Sugar")>>)) @@ ("nutritionalInfo" :> Energy)),
   Obj("ingredients" :> Arr(<< >>)),
   Obj(("ingredients" :> Str("")) @@ ("nutritionalInfo" :> Null))}
ManufacturingOpts ==
  {Undef,
   Obj(("manufacturingAddresses" :> Arr(<<Str("Plot 1")>>)) @@
       ("fssaiLicense" :> Str("A1234")) @@ ("vegetarian" :> Bool(TRUE))),
   Obj(("fssaiLicense" :> Num(12)) @@ ("vegetarian" :> Bool(FALSE))),
   Obj(("manufacturingAddresses" :> Arr(<< >>)) @@
       ("fssaiLicense" :> Arr(<<Num(12), Null>>)) @@ ("vegetarian" :> Num(0)))}
  \cup {Obj(("manufacturingAddresses" :> Arr(<<Str("Plot 1")>>)) @@
            ("fssaiLicense" :> a) @@ ("vegetarian" :> Str("Yes"))) :
          a \in StrArrays({Str("A1234"), Str("B5678")})}
ContactOpts == {Undef, Obj("consumerContact" :> Phone), Obj("consumerContact" :> Null)}
OtherGroupOpts == {Undef, Obj("otherDetails" :> Origin)}

GroupedObject(top, bi, db, inu, mr, ci, od) ==
  ObjOf(("name" :> top[1]) @@ ("company" :> top[2]) @@
        (BasicInformation :> bi) @@ (DatesBatch :> db) @@
        (IngredientsNutrition :> inu) @@ (ManufacturingRegulatory :> mr) @@
        (ContactInformation :> ci) @@ (OtherDetails :> od))

\* JSON values that are not objects.
NonObjects == {Null, Num(5), Str("Tea"), Bool(TRUE), Arr(<<Str("Tea")>>)}

\* The gateway call fails, or resolves with no content, with a text that is
\* not JSON, or with JSON that is not an object.
OtherOutcomes ==
  {Rejected(st, c) : st \in {0, 401, 403, 404, 429, 500},
                     c \in {"", "insufficient_quota", "RESOURCE_EXHAUSTED"}}
  \cup {Resolved(Undef), Resolved(Null), Resolved(NoJson("")), Resolved(NoJson("Sorry, I cannot"))}
  \cup {Resolved(JsonText(raw)) : raw \in NonObjects}

Credentials == {Undef, Str(""), Str("sk-or-v1-0000")}

RECURSIVE Repeat(_, _)
Repeat(s, n) == IF n = 0 THEN "" ELSE s \o Repeat(s, n - 1)

LongText == Str(Repeat("0123456789", 100) \o "X")

OcrTexts == {Null, Str(""), Str("  \n"), Str("Tea 50g"), Str(" Tea 50g\n"), LongText}

-----------------------------------------------------------------------------
(* The invocation.  A behaviour is one invocation of parseProductText,      *)
(* parseProductImage or POST, from its call to its completion; the module  *)
(* keeps no state from one invocation to the next.                         *)

\* Number of invocations that run concurrently.
MaxInvocations == 2
Invocations == 1..MaxInvocations

\* The local state of one invocation before its call.
NotCalled == [pc |-> "idle", caller |-> "none", mode |-> "none", apiKey |-> Undef,
              ocrText |-> Null, gatewayOutcome |-> NotSettled,
              result |-> NoResult, response |-> NoResponse]

\* The page before a scan: README.md:136-140 (the state of Home).
ClientIdle == [pc |-> "idle", isScanning |-> FALSE, ocrProgress |-> 0,
               image |-> "none", ocr |-> Null,
               textOutcome |-> NotSettled, productData |-> Null, error |-> Null]

\* Number of extractText / cleanupOCRWorker calls in one behaviour.
MaxOcrCalls == 3
OcrProcs == 1..MaxOcrCalls
WorkerIds == 1..MaxOcrCalls

\* src/lib/ocr.ts:9: `let worker = null`, no worker created, no call made.
\* Worker 0 stands for null.
OcrInit == [worker |-> 0,
            created |-> 0,
            state |-> [w \in WorkerIds |-> "none"],
            terminates |-> [w \in WorkerIds |-> 0],
            cleanups |-> 0,
            procs |-> [p \in OcrProcs |-> [op |-> "none", pc |-> "idle", w |-> 0]]]

\* Number of processImage invocations in one behaviour.
MaxScans == 3
ScanIds == 1..MaxScans

\* README.md:137-140: the page's state before any scan.  productData 0 stands
\* for null, productData i for the data the server returned to invocation i;
\* seq is the position of an invocation in the order of the calls.
ScansInit == [isScanning |-> FALSE, ocrProgress |-> 0, productData |-> 0,
              error |-> FALSE, started |-> 0,
              runs |-> [i \in ScanIds |-> [pc |-> "idle", seq |-> 0, ok |-> FALSE]]]
\* Number of getUserMedia calls (by startCamera and checkPermissions) in one
\* behaviour.
MaxCameraCalls == 3
StreamIds == 1..MaxCameraCalls

\* CameraCapture.tsx:11-23: the component when it has mounted, navigator
\* .mediaDevices being available.  Stream 0 stands for null; pending and
\* checking count the startCamera and checkPermissions calls that await
\* getUserMedia; stopped tells that stopCamera has run since the last call
\* of startCamera.
CameraInit == [mounted |-> TRUE, isStreaming |-> FALSE, hasPermission |-> "unchecked",
               streamRef |-> 0, streams |-> [n \in StreamIds |-> "none"],
               acquired |-> 0, called |-> 0, pending |-> 0, checking |-> 0,
               stopped |-> FALSE]

Init ==
  /\ pc = "idle"
  /\ caller = "none"
  /\ mode = "none"
  /\ apiKey = Undef
  /\ ocrText = Null
  /\ file = FALSE
  /\ gatewayCalls = 0
  /\ gatewayOutcome = NotSettled
  /\ flattened = Undef
  /\ result = NoResult
  /\ response = NoResponse
  /\ client = ClientIdle
  /\ sent = << >>
  /\ calls = [i \in Invocations |-> NotCalled]
  /\ ocr = OcrInit
  /\ scans = ScansInit
  /\ camera = CameraInit

\* The credential check of lines 124-126 / 293-295 is missing.
Enter_Unchecked(m, key, issued) ==
  /\ mode' = m
  /\ gatewayOutcome' = NotSettled
  /\ flattened' = Undef
  /\ result' = NoResult
  /\ gatewayCalls' = issued + 1
  /\ pc' = "awaitGateway"

\* Lines 124-126 / 293-295 and the request of lines 191 / 306: entry of
\* parseProductText or parseProductImage up to its first await, in an
\* invocation that has issued `issued` gateway requests so far.
Enter(m, key, issued) ==
  /\ mode' = m
  /\ gatewayOutcome' = NotSettled
  /\ flattened' = Undef
  /\ IF ~Truthy(key)
     THEN /\ result' = Thrown("OpenRouter API key is required", 0, "")
          /\ gatewayCalls' = issued
          /\ pc' = "done"
     ELSE /\ result' = NoResult
          /\ gatewayCalls' = issued + 1
          /\ pc' = "awaitGateway"

\* A caller other than the route calls parseProductText(ocrText, apiKey).
CallParseText(text, key) ==
  /\ pc = "idle"
  /\ caller' = "direct"
  /\ apiKey' = key
  /\ ocrText' = text
  /\ file' = FALSE
  /\ response' = NoResponse
  /\ Enter("text", key, 0)
  /\ UNCHANGED <<client, sent, calls, ocr, scans, camera>>

\* A caller other than the route calls parseProductImage(base64, mime, apiKey).
CallParseImage(key) ==
  /\ pc = "idle"
  /\ caller' = "direct"
  /\ apiKey' = key
  /\ ocrText' = Null
  /\ file' = TRUE
  /\ response' = NoResponse
  /\ Enter("image", key, 0)
  /\ UNCHANGED <<client, sent, calls, ocr, scans, camera>>

\* The invocation ends in the route without calling a parse function.
Respond(r) ==
  /\ response' = r
  /\ pc' = "done"
  /\ mode' = "none"
  /\ gatewayCalls' = 0
  /\ gatewayOutcome' = NotSettled
  /\ flattened' = Undef
  /\ result' = NoResult

\* The file is tested before the text: an attached image goes to
\* parseProductImage whatever ocrText holds.
PostRequest_ImageFirst(text, hasFile, key) ==
  /\ pc = "idle"
  /\ caller' = "route"
  /\ apiKey' = key
  /\ ocrText' = text
  /\ file' = hasFile
  /\ UNCHANGED <<client, sent, calls, ocr, scans, camera>>
  /\ IF hasFile
     THEN IF ~Truthy(key)
          THEN Respond(NoKeyImageResponse)
          ELSE /\ response' = NoResponse
               /\ pc' = "awaitBase64"
               /\ mode' = "none"
               /\ gatewayCalls' = 0
               /\ gatewayOutcome' = NotSettled
               /\ flattened' = Undef
               /\ result' = NoResult
     ELSE IF HasOcrText(text)
          THEN IF ~Truthy(key)
               THEN Respond(NoKeyTextResponse(text))
               ELSE /\ response' = NoResponse
                    /\ Enter("text", key, 0)
          ELSE Respond(NothingProvided)

\* route.ts:10-44 and 111-126: POST up to its first await after the form
\* has been read.
PostRequest(text, hasFile, key) ==
  /\ pc = "idle"
  /\ caller' = "route"
  /\ apiKey' = key
  /\ ocrText' = text
  /\ file' = hasFile
  /\ UNCHANGED <<client, sent, calls, ocr, scans, camera>>
  /\ IF HasOcrText(text)
     THEN IF ~Truthy(key)
          THEN Respond(NoKeyTextResponse(text))
          ELSE /\ response' = NoResponse
               /\ Enter("text", key, 0)
     ELSE IF hasFile
          THEN IF ~Truthy(key)
               THEN Respond(NoKeyImageResponse)
               ELSE /\ response' = NoResponse
                    /\ pc' = "awaitBase64"
                    /\ mode' = "none"
                    /\ gatewayCalls' = 0
                    /\ gatewayOutcome' = NotSettled
                    /\ flattened' = Undef
                    /\ result' = NoResult
          ELSE Respond(NothingProvided)

\* route.ts:12 rejects: the request body is not form data.
PostUnreadable(key) ==
  /\ pc = "idle"
  /\ caller' = "route"
  /\ apiKey' = key
  /\ ocrText' = Null
  /\ file' = FALSE
  /\ Respond(OuterCatch(Thrown("Failed to parse body as FormData.", 0, "")))
  /\ UNCHANGED <<client, sent, calls, ocr, scans, camera>>

\* route.ts:125: `await fileToBase64(file)` settles; on success
\* parseProductImage is entered (line 128), on failure the catch of line 138
\* rethrows to the outer catch.
Base64Settle(ok) ==
  /\ pc = "awaitBase64"
  /\ UNCHANGED <<caller, apiKey, ocrText, file, client, sent, calls, ocr, scans, camera>>
  /\ IF ok
     THEN /\ response' = NoResponse
          /\ Enter("image", apiKey, gatewayCalls)
     ELSE Respond(OuterCatch(Thrown("file.arrayBuffer is not a function", 0, "")))

\* A rejected request is issued once more before the catch block runs.
GatewaySettle_RetryOnce(outcome) ==
  /\ pc = "awaitGateway"
  /\ IF outcome.kind = "rejected" /\ gatewayCalls < 2
     THEN /\ gatewayCalls' = gatewayCalls + 1
          /\ UNCHANGED <<pc, gatewayOutcome, flattened, result, response>>
     ELSE /\ gatewayOutcome' = outcome
          /\ flattened' = IF mode = "image" THEN FlattenedOfImage(outcome)
                          ELSE FlattenedOf(outcome)
          /\ result' = IF mode = "image" THEN AfterFlattenImage(flattened')
                       ELSE AfterFlatten(flattened')
          /\ response' = IF caller # "route" THEN NoResponse
                         ELSE IF mode = "text" THEN TextResponse(result', ocrText)
                         ELSE ImageResponse(result')
          /\ pc' = "done"
          /\ UNCHANGED gatewayCalls
  /\ UNCHANGED <<caller, mode, apiKey, ocrText, file, client, sent, calls, ocr, scans, camera>>

\* The awaited openai.chat.completions.create settles; the parse function
\* runs to completion, and so does the route when it is the caller.
GatewaySettle(outcome) ==
  /\ pc = "awaitGateway"
  /\ gatewayOutcome' = outcome
  /\ flattened' = IF mode = "image" THEN FlattenedOfImage(outcome)
                  ELSE FlattenedOf(outcome)
  /\ result' = IF mode = "image" THEN AfterFlattenImage(flattened')
               ELSE AfterFlatten(flattened')
  /\ response' = IF caller # "route" THEN NoResponse
                 ELSE IF mode = "text" THEN TextResponse(result', ocrText)
                 ELSE ImageResponse(result')
  /\ pc' = "done"
  /\ UNCHANGED <<caller, mode, apiKey, ocrText, file, gatewayCalls, client, sent, calls, ocr, scans, camera>>

DirectTexts == {Str(""), Str("Tea 50g")}

\* The gateway call fails or answers something that is not a JSON object.
GatewayOther ==
  /\ pc = "awaitGateway"
  /\ \E outcome \in OtherOutcomes : GatewaySettle(outcome)

\* The gateway answers an object with canonical fields at top level.
GatewayFlat ==
  /\ pc = "awaitGateway"
  /\ \E n \in NameOpts, m \in MrpOpts, i \in IngredientsOpts,
        nu \in NutritionOpts, od \in OtherOpts, sg \in StrayGroupOpts :
        GatewaySettle(Resolved(JsonText(FlatObject(n, m, i, nu, od, sg))))

\* The gateway answers an object with category headings at top level.
GatewayGrouped ==
  /\ pc = "awaitGateway"
  /\ \E top \in TopOpts, bi \in BasicOpts, db \in DatesOpts,
        inu \in IngredientsGroupOpts, mr \in ManufacturingOpts,
        ci \in ContactOpts, od \in OtherGroupOpts :
        GatewaySettle(Resolved(JsonText(GroupedObject(top, bi, db, inu, mr, ci, od))))

Next ==
  \/ \E text \in DirectTexts, key \in Credentials : CallParseText(text, key)
  \/ \E key \in Credentials : CallParseImage(key)
  \/ \E text \in OcrTexts, hasFile \in BOOLEAN, key \in Credentials :
        PostRequest(text, hasFile, key)
  \/ \E key \in Credentials : PostUnreadable(key)
  \/ \E ok \in BOOLEAN : Base64Settle(ok)
  \/ GatewayOther
  \/ GatewayFlat
  \/ GatewayGrouped

Spec == Init /\ [][Next]_vars

-----------------------------------------------------------------------------
(* Concurrent invocations.  Every variable of parseProductText,            *)
(* parseProductImage and POST is a local of the call (the OpenAI client of *)
(* lines 128 / 297 included); the module-level bindings of                 *)
(* productParser.ts and route.ts are constants.  A call runs without       *)
(* interruption up to its await and from its await to its return, and      *)
(* other calls run in between.                                             *)

invocationVars == <<pc, caller, mode, apiKey, ocrText, file, gatewayCalls,
                    gatewayOutcome, flattened, result, response>>

ConcurrentTexts == {Str("Tea 50g"), Str(" Milk 1l\n")}

\* What the gateway answers to the concurrent calls: a failure, no content,
\* a text that is not JSON, a valid flat object, a flat object that fails
\* validation, a grouped object.
ConcurrentOutcomes ==
  {Rejected(429, ""), Resolved(Null), Resolved(NoJson("Sorry, I cannot")),
   Resolved(JsonText(FlatObject(Str("Choco Bar"), Str("Rs 50"), Undef, Energy, Undef, Undef))),
   Resolved(JsonText(FlatObject(Num(5), Str("Rs 50"), Undef, Undef, Undef, Undef))),
   Resolved(JsonText(GroupedObject(<<Undef, Undef>>, Obj("name" :> Str("Tea")),
                                   Obj("expiryDate" :> Str("2025-12-01")),
                                   Undef, Undef, Undef, Undef)))}

\* Invocation i is called: parseProductText or parseProductImage by a direct
\* caller (lines 120-206 / 288-343), or POST with a non-blank ocrText
\* (route.ts:10-44), up to the await of the gateway call.
StartCall(i, c, m, text, key) ==
  /\ calls[i].pc = "idle"
  /\ c = "route" => (m = "text" /\ HasOcrText(text))
  /\ calls' = [calls EXCEPT ![i] =
        [pc |-> IF Truthy(key) THEN "awaitGateway" ELSE "done",
         caller |-> c,
         mode |-> IF c = "route" /\ ~Truthy(key) THEN "none" ELSE m,
         apiKey |-> key,
         ocrText |-> IF m = "text" THEN text ELSE Null,
         gatewayOutcome |-> NotSettled,
         result |-> IF ~Truthy(key) /\ c = "direct"
                    THEN Thrown("OpenRouter API key is required", 0, "")
                    ELSE NoResult,
         response |-> IF ~Truthy(key) /\ c = "route"
                      THEN NoKeyTextResponse(text) ELSE NoResponse]]
  /\ UNCHANGED <<invocationVars, client, sent, ocr, scans, camera>>

\* A module-level cache: the first completion any call received is reused by
\* every later call.
SettleCall_SharedCompletion(i, outcome) ==
  /\ calls[i].pc = "awaitGateway"
  /\ LET cached == {j \in Invocations : calls[j].gatewayOutcome.kind # "none"}
         used == IF cached = {} THEN outcome
                 ELSE calls[CHOOSE j \in cached : TRUE].gatewayOutcome
         res == ParseBody(used)
     IN calls' = [calls EXCEPT ![i].pc = "done",
                               ![i].gatewayOutcome = outcome,
                               ![i].result = res,
                               ![i].response = IF calls[i].caller = "route"
                                               THEN TextResponse(res, calls[i].ocrText)
                                               ELSE NoResponse]
  /\ UNCHANGED <<invocationVars, client, sent, ocr, scans, camera>>

\* The gateway call of invocation i settles and the invocation runs to its
\* return (lines 191-281 / 306-415; route.ts:41-108).
SettleCall(i, outcome) ==
  /\ calls[i].pc = "awaitGateway"
  /\ LET res == ParseBody(outcome)
     IN calls' = [calls EXCEPT ![i].pc = "done",
                               ![i].gatewayOutcome = outcome,
                               ![i].result = res,
                               ![i].response = IF calls[i].caller = "route"
                                               THEN TextResponse(res, calls[i].ocrText)
                                               ELSE NoResponse]
  /\ UNCHANGED <<invocationVars, client, sent, ocr, scans, camera>>

NextConcurrent ==
  \/ \E i \in Invocations, c \in {"direct", "route"}, m \in {"text", "image"},
        text \in ConcurrentTexts, key \in Credentials : StartCall(i, c, m, text, key)
  \/ \E i \in Invocations, outcome \in ConcurrentOutcomes : SettleCall(i, outcome)

SpecConcurrent == Init /\ [][NextConcurrent]_vars

-----------------------------------------------------------------------------
(* The page's scan flow, processImage (README.md:157-248), run against     *)
(* route POST.  client.pc is "idle", "compress", "ocr", "textSent",        *)
(* "visionSent" or "finished"; client.ocr is what extractText settled      *)
(* with and client.textOutcome how the gateway call of the text request    *)
(* settled on the server.                                                  *)

\* What extractText (src/lib/ocr.ts:36-51) settles with: the trimmed text, or
\* the error it rethrows.
OcrResults == {Throw("Error", "Failed to extract text from image"),
               Str(""), Str("Tea 50g")}

\* A request to /api/scan: the form fields it carries.
Request(text, image) == [ocrText |-> text, image |-> image]

\* response.ok
Ok(resp) == resp.status \in 200..299

\* Lines 214-222: the request of the Vision strategy is sent.
SendVision(c) ==
  /\ sent' = Append(sent, Request(Null, c.image))
  /\ client' = [c EXCEPT !.pc = "visionSent", !.ocrProgress = 60]

\* A return or a throw that left processImage without running its finally
\* block.
Finished_NoFinally(c, data, err) ==
  [c EXCEPT !.pc = "finished", !.ocrProgress = 100, !.productData = data, !.error = err]

\* Lines 193-199, 230-247: a return or the outer catch, then the finally
\* block.
Finished(c, data, err) ==
  [c EXCEPT !.pc = "finished", !.isScanning = FALSE, !.ocrProgress = 0,
            !.productData = data, !.error = err]

\* Lines 157-169: processImage is called and awaits compressImage.
ProcessImage ==
  /\ client.pc = "idle"
  /\ client' = [client EXCEPT !.pc = "compress", !.isScanning = TRUE,
                              !.error = Null, !.productData = Null,
                              !.ocrProgress = 0]
  /\ UNCHANGED <<invocationVars, sent, calls, ocr, scans, camera>>

\* Lines 165-175: compressImage resolves, with the compressed file or, when
\* compression failed, with the original one (src/lib/imageUtils.ts:23-36);
\* processImage awaits extractText.
CompressSettle(ok) ==
  /\ client.pc = "compress"
  /\ client' = [client EXCEPT !.pc = "ocr", !.ocrProgress = 10,
                              !.image = IF ok THEN "compressed" ELSE "original"]
  /\ UNCHANGED <<invocationVars, sent, calls, ocr, scans, camera>>

\* Lines 175-188 and 209-222: extractText settles.  A non-blank text is sent
\* with the image; a blank text or an error leads to the Vision strategy.
OcrSettle(out) ==
  /\ client.pc = "ocr"
  /\ IF ~IsThrow(out) /\ HasOcrText(out)
     THEN /\ sent' = Append(sent, Request(out, client.image))
          /\ client' = [client EXCEPT !.pc = "textSent", !.ocr = out,
                                      !.ocrProgress = 60]
     ELSE SendVision([client EXCEPT !.ocr = out])
  /\ UNCHANGED <<invocationVars, calls, ocr, scans, camera>>

\* The route receives the request the page sent last; the credential of the
\* server's environment is the same for both requests of a scan.
ServePost ==
  /\ client.pc \in {"textSent", "visionSent"}
  /\ \E key \in Credentials :
        /\ Len(sent) > 1 => key = apiKey
        /\ PostRequest(sent[Len(sent)].ocrText, sent[Len(sent)].image # "none", key)

\* Lines 190-212: the response to the text request arrives.
TextResponseReceived ==
  /\ client.pc = "textSent"
  /\ pc = "done"
  /\ LET body == OnTheWire(response).body
         c == [client EXCEPT !.textOutcome = gatewayOutcome]
     IN IF Ok(response) /\ Truthy(Get(body, "success"))
        THEN /\ client' = Finished(c, Get(body, "data"),
                              IF Get(body, "code") = Str("quota_exceeded")
                                 /\ Truthy(Get(body, "message"))
                              THEN Get(body, "message") ELSE Null)
             /\ UNCHANGED <<sent, pc>>
        ELSE /\ SendVision(c)
             /\ pc' = "idle"
  /\ UNCHANGED <<caller, mode, apiKey, ocrText, file, gatewayCalls,
                 gatewayOutcome, flattened, result, response, calls, ocr, scans, camera>>

\* Lines 224-247: the response to the Vision request arrives.
VisionResponseReceived ==
  /\ client.pc = "visionSent"
  /\ pc = "done"
  /\ LET body == OnTheWire(response).body
     IN client' =
          IF ~Ok(response)
          THEN Finished(client, Null,
                        IF Truthy(Get(body, "error")) THEN Get(body, "error")
                        ELSE Str("Failed to scan product"))
          ELSE IF Truthy(Get(body, "success"))
          THEN Finished(client, Get(body, "data"), Null)
          ELSE Finished(client, Null,
                        IF Truthy(Get(body, "error")) THEN Get(body, "error")
                        ELSE Str("Failed to extract product information"))
  /\ UNCHANGED <<invocationVars, sent, calls, ocr, scans, camera>>

\* Lines 185-188, 191, 202, 209-212 and 219-229, 237-247: fetch, or the
\* reading of the response's body, rejects.  In the text strategy the inner
\* catch leads to the Vision strategy; in the Vision strategy the outer catch
\* reports the error.
FetchRejected ==
  /\ client.pc \in {"textSent", "visionSent"}
  /\ pc = "done"
  /\ IF client.pc = "textSent"
     THEN /\ SendVision([client EXCEPT !.textOutcome = gatewayOutcome])
          /\ pc' = "idle"
     ELSE /\ client' = Finished(client, Null, Str("Failed to fetch"))
          /\ UNCHANGED <<sent, pc>>
  /\ UNCHANGED <<caller, mode, apiKey, ocrText, file, gatewayCalls,
                 gatewayOutcome, flattened, result, response, calls, ocr, scans, camera>>

\* The gateway call of the request being served settles: with a failure, no
\* content, a text that is not JSON, or an object with or without valid
\* product data.
GatewayAnswers ==
  /\ pc = "awaitGateway"
  /\ \E outcome \in ConcurrentOutcomes : GatewaySettle(outcome)

NextClient ==
  \/ ProcessImage
  \/ \E ok \in BOOLEAN : CompressSettle(ok)
  \/ \E out \in OcrResults : OcrSettle(out)
  \/ ServePost
  \/ \E ok \in BOOLEAN : Base64Settle(ok)
  \/ GatewayAnswers
  \/ TextResponseReceived
  \/ VisionResponseReceived
  \/ FetchRejected

SpecClient == Init /\ [][NextClient]_vars

\* Every step processImage awaits settles: compressImage, extractText, and
\* each fetch, which is answered by the route (whose own awaits settle) or
\* rejects.  Calling processImage is up to the user.
SpecScanFair ==
  /\ SpecClient
  /\ WF_vars(\E ok \in BOOLEAN : CompressSettle(ok))
  /\ WF_vars(\E out \in OcrResults : OcrSettle(out))
  /\ WF_vars(ServePost)
  /\ WF_vars(\E ok \in BOOLEAN : Base64Settle(ok))
  /\ WF_vars(GatewayAnswers)
  /\ WF_vars(TextResponseReceived \/ VisionResponseReceived \/ FetchRejected)

-----------------------------------------------------------------------------
(* Overlapping scans.  The page shows the camera or the upload area as     *)
(* long as productData is null (README.md:319-338), also while a scan is   *)
(* in progress, and each capture or upload calls processImage.  All        *)
(* invocations write the same isScanning, ocrProgress, productData and     *)
(* error.  An invocation's pc is "idle", "compress", "ocr", "text",        *)
(* "vision" or "finished".                                                 *)

nonScanVars == <<invocationVars, client, sent, calls, ocr, camera>>

\* Lines 149-169: a capture or an upload calls processImage, which resets the
\* page's state and awaits compressImage.
ScanStart(i) ==
  /\ scans.runs[i].pc = "idle"
  /\ scans.productData = 0
  /\ scans' = [scans EXCEPT !.isScanning = TRUE, !.error = FALSE,
                            !.productData = 0, !.ocrProgress = 0,
                            !.started = @ + 1,
                            !.runs[i] = [pc |-> "compress", seq |-> scans.started + 1,
                                         ok |-> FALSE]]
  /\ UNCHANGED nonScanVars

\* Lines 165-175: compressImage resolves; extractText is awaited.
ScanCompressed(i) ==
  /\ scans.runs[i].pc = "compress"
  /\ scans' = [scans EXCEPT !.ocrProgress = 10, !.runs[i].pc = "ocr"]
  /\ UNCHANGED nonScanVars

\* Lines 175-222: extractText settles and the text request or the Vision
\* request is sent, or the text request failed and the Vision request is
\* sent.
ScanRequestSent(i, strategy) ==
  /\ \/ scans.runs[i].pc = "ocr"
     \/ scans.runs[i].pc = "text" /\ strategy = "vision"
  /\ scans' = [scans EXCEPT !.ocrProgress = 60, !.runs[i].pc = strategy]
  /\ UNCHANGED nonScanVars

\* Lines 190-199 and 224-247: the response arrives.  A success stores the
\* data, a failure the error; the finally block clears isScanning.
ScanSettled(i, ok) ==
  /\ scans.runs[i].pc \in {"text", "vision"}
  /\ scans.runs[i].pc = "text" => ok
  /\ scans' = [scans EXCEPT !.isScanning = FALSE, !.ocrProgress = 0,
                            !.productData = IF ok THEN i ELSE @,
                            !.error = IF ok THEN @ ELSE TRUE,
                            !.runs[i].pc = "finished", !.runs[i].ok = ok]
  /\ UNCHANGED nonScanVars

NextScans ==
  \/ \E i \in ScanIds : ScanStart(i)
  \/ \E i \in ScanIds : ScanCompressed(i)
  \/ \E i \in ScanIds, strategy \in {"text", "vision"} : ScanRequestSent(i, strategy)
  \/ \E i \in ScanIds, ok \in BOOLEAN : ScanSettled(i, ok)

SpecScans == Init /\ [][NextScans]_vars

-----------------------------------------------------------------------------
(* The camera, src/components/CameraCapture.tsx.  A stream is "none" (not  *)
(* acquired), "live" or "stopped" (all its tracks stopped).                *)

nonCameraVars == <<invocationVars, client, sent, calls, ocr, scans>>

\* Lines 121-146: the video element is rendered, and videoRef.current set,
\* while the component is mounted and hasPermission is not false.
VideoRendered(cam) == cam.mounted /\ cam.hasPermission # "false"

\* Lines 68-71: the tracks of the stream of streamRef are stopped.
StopTracks(cam) ==
  IF cam.streamRef # 0 THEN [cam.streams EXCEPT ![cam.streamRef] = "stopped"]
  ELSE cam.streams

\* Lines 36-53 and 155-162: the Start Camera button, shown while not
\* streaming, calls startCamera, which stops the tracks of an existing stream
\* and awaits getUserMedia.
StartCamera ==
  /\ VideoRendered(camera)
  /\ ~camera.isStreaming
  /\ camera.called < MaxCameraCalls
  /\ camera' = [camera EXCEPT !.streams = StopTracks(camera),
                              !.called = @ + 1, !.pending = @ + 1,
                              !.stopped = FALSE]
  /\ UNCHANGED nonCameraVars

\* Lines 53-64: getUserMedia settles.  A stream is kept and shown when the
\* video element exists; a rejection sets hasPermission to false.
GetUserMediaSettle(ok) ==
  /\ camera.pending > 0
  /\ IF ok
     THEN camera' = [camera EXCEPT
                       !.pending = @ - 1,
                       !.acquired = @ + 1,
                       !.streams[camera.acquired + 1] = "live",
                       !.streamRef = IF VideoRendered(camera)
                                     THEN camera.acquired + 1 ELSE @,
                       !.isStreaming = IF VideoRendered(camera) THEN TRUE ELSE @]
     ELSE camera' = [camera EXCEPT
                       !.pending = @ - 1,
                       !.hasPermission = IF camera.mounted THEN "false" ELSE @]
  /\ UNCHANGED nonCameraVars

\* Lines 67-76, 95-103 and 209-214: stopCamera, called by the Stop button or
\* after a capture.
StopCamera ==
  /\ VideoRendered(camera)
  /\ camera.isStreaming
  /\ camera' = [camera EXCEPT !.streams = StopTracks(camera), !.streamRef = 0,
                              !.isStreaming = FALSE, !.stopped = TRUE]
  /\ UNCHANGED nonCameraVars

\* Lines 114-119: the component unmounts and its cleanup calls stopCamera.
Unmount ==
  /\ camera.mounted
  /\ camera' = [camera EXCEPT !.streams = StopTracks(camera), !.streamRef = 0,
                              !.isStreaming = FALSE, !.stopped = TRUE,
                              !.mounted = FALSE]
  /\ UNCHANGED nonCameraVars

\* Lines 25-27 and 121-132: the Request Camera Permission button, shown when
\* hasPermission is false, calls checkPermissions, which awaits getUserMedia.
CheckPermissions ==
  /\ camera.mounted
  /\ camera.hasPermission = "false"
  /\ camera.called < MaxCameraCalls
  /\ camera' = [camera EXCEPT !.called = @ + 1, !.checking = @ + 1]
  /\ UNCHANGED nonCameraVars

\* Lines 27-33: getUserMedia settles for checkPermissions, which stops the
\* tracks of the stream at once.
CheckSettle(ok) ==
  /\ camera.checking > 0
  /\ IF ok
     THEN camera' = [camera EXCEPT
                       !.checking = @ - 1,
                       !.acquired = @ + 1,
                       !.streams[camera.acquired + 1] = "stopped",
                       !.hasPermission = IF camera.mounted THEN "true" ELSE @]
     ELSE camera' = [camera EXCEPT
                       !.checking = @ - 1,
                       !.hasPermission = IF camera.mounted THEN "false" ELSE @]
  /\ UNCHANGED nonCameraVars

NextCamera ==
  \/ StartCamera
  \/ \E ok \in BOOLEAN : GetUserMediaSettle(ok)
  \/ StopCamera
  \/ Unmount
  \/ CheckPermissions
  \/ \E ok \in BOOLEAN : CheckSettle(ok)

SpecCamera == Init /\ [][NextCamera]_vars

-----------------------------------------------------------------------------
(* The OCR worker cache, src/lib/ocr.ts.  A call of extractText or         *)
(* cleanupOCRWorker runs without interruption between its awaits; other    *)
(* calls run in between.  ocr.state[w] is "none", "creating", "live",      *)
(* "failed", "terminating" or "terminated"; a call's pc is "idle",         *)
(* "awaitCreate", "awaitInit", "awaitRecognize", "awaitTerminate", "done"  *)
(* or "failed", and its w the worker it holds.                             *)

nonOcrVars == <<invocationVars, client, sent, calls, scans, camera>>

\* Lines 36-38 and 14-16: extractText is called and calls initOCRWorker.
\* With an empty cache createWorker is called and awaited; otherwise
\* initOCRWorker returns the cached worker and extractText awaits that.
ExtractStart(p) ==
  /\ ocr.procs[p].pc = "idle"
  /\ IF ocr.worker = 0
     THEN ocr' = [ocr EXCEPT !.created = @ + 1,
                             !.state[ocr.created + 1] = "creating",
                             !.procs[p] = [op |-> "extract", pc |-> "awaitCreate",
                                           w |-> ocr.created + 1]]
     ELSE ocr' = [ocr EXCEPT !.procs[p] = [op |-> "extract", pc |-> "awaitInit",
                                           w |-> ocr.worker]]
  /\ UNCHANGED nonOcrVars

\* Lines 15-27 and 45-48: createWorker settles.  The new worker is stored in
\* the cache and returned; a rejection is rethrown by extractText.
CreateSettle(p, ok) ==
  /\ ocr.procs[p].pc = "awaitCreate"
  /\ IF ok
     THEN ocr' = [ocr EXCEPT !.worker = ocr.procs[p].w,
                             !.state[ocr.procs[p].w] = "live",
                             !.procs[p].pc = "awaitInit"]
     ELSE ocr' = [ocr EXCEPT !.state[ocr.procs[p].w] = "failed",
                             !.procs[p].pc = "failed"]
  /\ UNCHANGED nonOcrVars

\* Lines 38-42: the await of initOCRWorker resumes and recognize is called on
\* the worker it returned.
RecognizeStart(p) ==
  /\ ocr.procs[p].pc = "awaitInit"
  /\ ocr' = [ocr EXCEPT !.procs[p].pc = "awaitRecognize"]
  /\ UNCHANGED nonOcrVars

\* Lines 40-48: recognize settles; extractText returns the text or rethrows.
RecognizeSettle(p, ok) ==
  /\ ocr.procs[p].pc = "awaitRecognize"
  /\ ocr' = [ocr EXCEPT !.procs[p].pc = IF ok THEN "done" ELSE "failed"]
  /\ UNCHANGED nonOcrVars

\* Lines 54-56: cleanupOCRWorker is called; with a cached worker it calls
\* terminate on it and awaits.
CleanupStart(p) ==
  /\ ocr.procs[p].pc = "idle"
  /\ IF ocr.worker # 0
     THEN ocr' = [ocr EXCEPT !.cleanups = @ + 1,
                             !.terminates[ocr.worker] = @ + 1,
                             !.state[ocr.worker] = "terminating",
                             !.procs[p] = [op |-> "cleanup", pc |-> "awaitTerminate",
                                           w |-> ocr.worker]]
     ELSE ocr' = [ocr EXCEPT !.cleanups = @ + 1,
                             !.procs[p] = [op |-> "cleanup", pc |-> "done", w |-> 0]]
  /\ UNCHANGED nonOcrVars

\* Lines 56-57: terminate settles and the cache is emptied.
TerminateSettle(p) ==
  /\ ocr.procs[p].pc = "awaitTerminate"
  /\ ocr' = [ocr EXCEPT !.state[ocr.procs[p].w] = "terminated",
                         !.worker = 0,
                         !.procs[p].pc = "done"]
  /\ UNCHANGED nonOcrVars

NextOcr ==
  \/ \E p \in OcrProcs : ExtractStart(p)
  \/ \E p \in OcrProcs, ok \in BOOLEAN : CreateSettle(p, ok)
  \/ \E p \in OcrProcs : RecognizeStart(p)
  \/ \E p \in OcrProcs, ok \in BOOLEAN : RecognizeSettle(p, ok)
  \/ \E p \in OcrProcs : CleanupStart(p)
  \/ \E p \in OcrProcs : TerminateSettle(p)

SpecOcr == Init /\ [][NextOcr]_vars

-----------------------------------------------------------------------------
(* Properties                                                              *)

Done == pc = "done"
Parsed == Done /\ result.kind = "return"

\* The gateway answered a JSON text; JsonValue is what it denotes.
HasJson ==
  /\ gatewayOutcome.kind = "resolved"
  /\ ~ContentMissing(gatewayOutcome.content)
  /\ gatewayOutcome.content.wellFormed
JsonValue == gatewayOutcome.content.denotes

\* Every canonical field of the record is the missing sentinel.
AllMissing(rec) == rec.t = "obj" /\ \A k \in CanonicalFields : Get(rec, k) = Undef

\* The gateway call raised, had no content, had content that is not JSON, or
\* JSON that is not an object.
GatewayFailed ==
  \/ gatewayOutcome.kind = "rejected"
  \/ /\ gatewayOutcome.kind = "resolved"
     /\ \/ ContentMissing(gatewayOutcome.content)
        \/ ~gatewayOutcome.content.wellFormed
        \/ gatewayOutcome.content.denotes.t # "obj"

\* C1: with a non-empty credential, when the gateway call raises, or the
\* response has no content, or the content is not JSON or is JSON that is not
\* an object, parseProductText / parseProductImage does not throw and returns
\* the record whose 19 fields are all undefined.
C1_FailurePathReturnsEmptyRecord ==
  (Done /\ mode # "none" /\ Truthy(apiKey) /\ GatewayFailed)
     => (result.kind = "return" /\ AllMissing(result.value)
         /\ DOMAIN result.value.v = CanonicalFields)

\* C1 witness: the content is the JSON text `null`, flattenNestedData raised,
\* and the call returned the empty record.
C1_Witness ==
  /\ Done /\ Truthy(apiKey) /\ mode = "text"
  /\ gatewayOutcome = Resolved(JsonText(Null))
  /\ IsThrow(flattened)
  /\ result = Returned(EmptyRecord)

\* C2: with an absent or empty credential no gateway request is ever issued;
\* a direct call of parseProductText / parseProductImage completes by throwing
\* the configuration error rather than by returning a record.
C2_NoCredentialNoGatewayCall ==
  (caller # "none" /\ ~Truthy(apiKey))
     => /\ gatewayCalls = 0
        /\ pc # "awaitGateway"
        /\ gatewayOutcome = NotSettled
        /\ caller = "direct" =>
             (Done /\ result.kind = "throw"
              /\ result.message = "OpenRouter API key is required")
        /\ caller = "route" => result.kind = "none"

\* C2 witness: parseProductImage was called with the empty string as
\* credential and threw.
C2_Witness ==
  /\ caller = "direct" /\ mode = "image" /\ apiKey = Str("")
  /\ Done /\ result.kind = "throw" /\ gatewayCalls = 0

\* The failure classification that reaches the caller of the route: the `code`
\* of the response body.
Classification == Get(response.body, "code")

\* C3: a gateway exception reaches the caller as the all-missing record
\* together with a failure classification: authentication failure for HTTP
\* status 401, the catch-all classification for an exception of no
\* recognised kind.
C3_FailureIsClassified ==
  (Done /\ caller = "route" /\ mode = "text" /\ gatewayOutcome.kind = "rejected")
     => /\ AllMissing(Get(response.body, "data"))
        /\ gatewayOutcome.status = 401 => Classification = Str("auth_failed")
        /\ (gatewayOutcome.status \in {0, 500} /\ gatewayOutcome.code = "")
              => Classification = Str("parsing_failed")

\* The canonical schema of spec section 3, stated on values.
IsString(v) == v.t = "str"
IsStringSeq(v) == v.t = "arr" /\ \A i \in 1..Len(v.v) : IsString(v.v[i])
IsOptStringRecord(keys, v) ==
  v.t = "obj" /\ \A k \in keys : (Get(v, k) = Undef \/ IsString(Get(v, k)))
IsStringMap(v) == v.t = "obj" /\ \A k \in DOMAIN v.v : IsString(v.v[k])

FieldConforms(k, v) ==
  \/ v = Undef
  \/ CASE k \in StringFields -> IsString(v)
       [] k \in ArrayFields -> IsStringSeq(v)
       [] k = "nutritionalInfo" -> IsOptStringRecord(NutrientFields, v)
       [] k = "consumerContact" -> IsOptStringRecord(ContactFields, v)
       [] OTHER -> IsStringMap(v)

\* What a model response may hold in a field and still pass validation: the
\* conforming values, with null wherever a string or a field may be absent.
FieldAcceptable(k, v) ==
  \/ IsNullish(v)
  \/ CASE k \in StringFields -> IsString(v)
       [] k \in ArrayFields -> IsStringSeq(v)
       [] k = "nutritionalInfo" ->
            v.t = "obj" /\ \A j \in NutrientFields : (IsNullish(Get(v, j)) \/ IsString(Get(v, j)))
       [] k = "consumerContact" ->
            v.t = "obj" /\ \A j \in ContactFields : (IsNullish(Get(v, j)) \/ IsString(Get(v, j)))
       [] OTHER -> IsStringMap(v)

\* C4: every record parseProductText / parseProductImage returns conforms to
\* the canonical schema, whatever the model answered.
C4_RecordConformsToSchema ==
  Parsed => (result.value.t = "obj"
             /\ \A k \in CanonicalFields : FieldConforms(k, Get(result.value, k)))

\* The canonical fields of the flattened object that validation rejects.
Malformed == {k \in CanonicalFields : ~FieldAcceptable(k, Get(flattened, k))}

\* C5: when exactly one canonical field of the flat object has a value of the
\* wrong type, the returned record has that field undefined and every other
\* field as in the flat object.
C5_OneBadFieldFallsBack ==
  (Parsed /\ flattened.t = "obj" /\ Cardinality(Malformed) = 1)
     => \A k \in CanonicalFields :
           IF k \in Malformed THEN Get(result.value, k) = Undef
           ELSE Get(result.value, k) = Coalesce(Get(flattened, k), Undef)

\* C6: no field of a returned record, and no field of its nutritionalInfo or
\* consumerContact, is null.
C6_NeverNull ==
  Parsed => \A k \in CanonicalFields :
               /\ Get(result.value, k) # Null
               /\ (k \in {"nutritionalInfo", "consumerContact"}
                   /\ Get(result.value, k).t = "obj")
                     => \A j \in DOMAIN Get(result.value, k).v :
                           Get(result.value, k).v[j] # Null

\* The model answered a JSON object that flattenNestedData returns as-is and
\* whose canonical fields all pass validation.
ValidFlatInput ==
  /\ HasJson
  /\ JsonValue.t = "obj"
  /\ IsFlat(JsonValue)
  /\ \A k \in CanonicalFields : FieldAcceptable(k, Get(JsonValue, k))

\* A nested record of the output against the one of the input: the
\* sub-fields of the schema agree, null read as missing, and nothing else is
\* in the output.
SameNested(keys, out, in) ==
  /\ out.t = "obj"
  /\ DOMAIN out.v \subseteq keys
  /\ \A j \in keys : Get(out, j) = Coalesce(Get(in, j), Undef)

\* C7 as stated: the record equals a valid flat input on every canonical
\* field that is present and not null, and is undefined on the others.
C7_RecordEqualsFlatInput ==
  (Done /\ mode # "none" /\ ValidFlatInput)
     => /\ result.kind = "return"
        /\ \A k \in CanonicalFields :
              Get(result.value, k) = Coalesce(Get(JsonValue, k), Undef)

\* C7 (amended): the record equals a valid flat input on every canonical field
\* that is present and not null, nutritionalInfo and consumerContact being
\* compared on the sub-fields of the schema with null read as missing and
\* unknown sub-fields dropped; every other canonical field is undefined.
C7_RecordEqualsNormalizedFlatInput ==
  (Done /\ mode # "none" /\ ValidFlatInput)
     => /\ result.kind = "return"
        /\ DOMAIN result.value.v \subseteq CanonicalFields
        /\ \A k \in CanonicalFields :
              IF k \in NestedFields /\ ~IsNullish(Get(JsonValue, k))
              THEN SameNested(SubFields(k), Get(result.value, k), Get(JsonValue, k))
              ELSE Get(result.value, k) = Coalesce(Get(JsonValue, k), Undef)

\* C7 witness: a flat answer with name, mrp, ingredients and a nutritionalInfo
\* that has a null sub-field; the record holds the three fields and the
\* nutritionalInfo without the null.
C7_Witness ==
  /\ Done /\ mode = "text"
  /\ HasJson
  /\ JsonValue = FlatObject(Str("Choco Bar"), Str("Rs 50"),
                            Arr(<<Str("Cocoa"), Str("Sugar")>>),
                            Obj(("energy" :> Null) @@ ("protein" :> Str("5 g"))),
                            Undef, Undef)
  /\ result.kind = "return"
  /\ Get(result.value, "name") = Str("Choco Bar")
  /\ Get(result.value, "mrp") = Str("Rs 50")
  /\ Get(result.value, "ingredients") = Arr(<<Str("Cocoa"), Str("Sugar")>>)
  /\ Get(Get(result.value, "nutritionalInfo"), "protein") = Str("5 g")
  /\ Get(Get(result.value, "nutritionalInfo"), "energy") = Undef
  /\ \A k \in CanonicalFields \ {"name", "mrp", "ingredients", "nutritionalInfo"} :
        Get(result.value, k) = Undef

\* The children of a group of the answer are canonical string fields.
StringChildren(g) ==
  /\ g.t = "obj"
  /\ DOMAIN g.v \subseteq StringFields
  /\ \A k \in DOMAIN g.v : IsString(g.v[k])

\* The model answered exactly a "Basic Information" and a "Dates & Batch"
\* group of canonical string fields, no field in both.
TwoGroupInput ==
  /\ HasJson
  /\ JsonValue.t = "obj"
  /\ DOMAIN JsonValue.v = {BasicInformation, DatesBatch}
  /\ StringChildren(JsonValue.v[BasicInformation])
  /\ StringChildren(JsonValue.v[DatesBatch])
  /\ DOMAIN JsonValue.v[BasicInformation].v \cap DOMAIN JsonValue.v[DatesBatch].v = {}

Group(g) == Get(JsonValue, g)

\* The names flattenNestedData lifts out of the four groups it does not merge.
LiftedNames == {"ingredients", "nutritionalInfo", "manufacturingAddresses",
                "fssaiLicense", "vegetarian", "consumerContact", "otherDetails"}

\* The heading under which a lifted name is looked up.
HeadingOf(k) ==
  CASE k \in {"ingredients", "nutritionalInfo"} -> IngredientsNutrition
    [] k \in {"manufacturingAddresses", "fssaiLicense", "vegetarian"} -> ManufacturingRegulatory
    [] k = "consumerContact" -> ContactInformation
    [] OTHER -> OtherDetails

\* The strings of a sequence separated by ", ".
RECURSIVE CommaJoined(_)
CommaJoined(q) ==
  IF Len(q) = 0 THEN ""
  ELSE IF Len(q) = 1 THEN q[1].v
  ELSE CommaJoined(SubSeq(q, 1, Len(q) - 1)) \o ", " \o q[Len(q)].v

\* The model answered an object with all six groups, each an object, with
\* every lifted name holding a non-empty value, and no name or company at top
\* level.
AllGroupsPopulated ==
  /\ HasJson
  /\ JsonValue.t = "obj"
  /\ ~Truthy(Get(JsonValue, "name")) /\ ~Truthy(Get(JsonValue, "company"))
  /\ \A g \in GroupKeys : Group(g).t = "obj"
  /\ \A k \in LiftedNames : Truthy(Get(Group(HeadingOf(k)), k))
  /\ \/ IsStringSeq(Get(Group(ManufacturingRegulatory), "fssaiLicense"))
     \/ IsString(Get(Group(ManufacturingRegulatory), "fssaiLicense"))
  /\ Get(Group(ManufacturingRegulatory), "vegetarian").t \in {"str", "bool"}

\* C9: with all six groups populated, the fields of the flattened object are
\* exactly the children of "Basic Information" and "Dates & Batch" and the
\* seven lifted names, each with its value in its group, except that a
\* fssaiLicense sequence becomes its elements joined with ", " and vegetarian
\* becomes a string.
C9_AllGroupsFlattened ==
  (Done /\ mode # "none" /\ AllGroupsPopulated)
     => /\ flattened.t = "obj"
        /\ DOMAIN flattened.v = DOMAIN Group(BasicInformation).v
                                \cup DOMAIN Group(DatesBatch).v \cup LiftedNames
        /\ \A k \in DOMAIN flattened.v \ LiftedNames :
              flattened.v[k] = IF k \in DOMAIN Group(DatesBatch).v
                               THEN Group(DatesBatch).v[k]
                               ELSE Group(BasicInformation).v[k]
        /\ \A k \in LiftedNames \ {"fssaiLicense", "vegetarian"} :
              flattened.v[k] = Get(Group(HeadingOf(k)), k)
        /\ LET lic == Get(Group(ManufacturingRegulatory), "fssaiLicense")
           IN flattened.v["fssaiLicense"] =
                IF lic.t = "arr" THEN Str(CommaJoined(lic.v)) ELSE lic
        /\ LET veg == Get(Group(ManufacturingRegulatory), "vegetarian")
           IN flattened.v["vegetarian"] =
                IF veg.t = "bool" THEN Str("true") ELSE veg

\* C9 witness: all six groups populated, fssaiLicense ["A1234", "B5678"]
\* flattened to "A1234, B5678".
C9_Witness ==
  /\ Done /\ mode = "text"
  /\ AllGroupsPopulated
  /\ Get(Group(ManufacturingRegulatory), "fssaiLicense") = Arr(<<Str("A1234"), Str("B5678")>>)
  /\ Get(flattened, "fssaiLicense") = Str("A1234, B5678")
  /\ Get(flattened, "vegetarian") = Str("Yes")
  /\ Get(flattened, "consumerContact") = Phone
  /\ Get(flattened, "name") = Str("Tea")

\* The model answered a grouped object: no name or company at top level, at
\* least one group, every group present an object, and the children of
\* "Basic Information" and "Dates & Batch" fields of those groups.
GroupedInput ==
  /\ HasJson
  /\ JsonValue.t = "obj"
  /\ ~Truthy(Get(JsonValue, "name")) /\ ~Truthy(Get(JsonValue, "company"))
  /\ GroupKeys \cap DOMAIN JsonValue.v # {}
  /\ \A g \in GroupKeys \cap DOMAIN JsonValue.v : Group(g).t = "obj"
  /\ BasicInformation \in DOMAIN JsonValue.v =>
        DOMAIN Group(BasicInformation).v \subseteq BasicFields
  /\ DatesBatch \in DOMAIN JsonValue.v =>
        DOMAIN Group(DatesBatch).v \subseteq DateFields

\* The heading to which a canonical field belongs.
HeadingOfField(k) ==
  IF k \in BasicFields THEN BasicInformation
  ELSE IF k \in DateFields THEN DatesBatch
  ELSE HeadingOf(k)

\* What flattening is to yield for canonical field k: the child of a merged
\* group, the non-empty child of a lifted group (as a string for fssaiLicense
\* and vegetarian), the missing sentinel when the group is absent.
YieldsField(flat, k) ==
  LET g == Group(HeadingOfField(k))
  IN IF k \in BasicFields \cup DateFields THEN Get(flat, k) = Get(g, k)
     ELSE IF ~Truthy(Get(g, k)) THEN Get(flat, k) = Undef
     ELSE IF k \in {"fssaiLicense", "vegetarian"} THEN IsString(Get(flat, k))
     ELSE Get(flat, k) = Get(g, k)

GroupsLifted ==
  /\ ~IsThrow(flattened)
  /\ result.kind = "return"
  /\ \A k \in CanonicalFields :
        /\ YieldsField(flattened, k)
        /\ HeadingOfField(k) \notin DOMAIN JsonValue.v => Get(result.value, k) = Undef

\* C10 as stated: for a grouped answer and any set of absent groups,
\* flattening raises no error and yields the lifted fields of exactly the
\* groups present, the fields of absent groups being undefined in the record.
C10_AnyGroupsAbsent ==
  (Done /\ mode # "none" /\ GroupedInput) => GroupsLifted

\* C10 (amended): the same, for any set of absent groups that leaves "Basic
\* Information" or "Dates & Batch" present.
C10_GroupsAbsentButAHeading ==
  (Done /\ mode # "none" /\ GroupedInput
      /\ (BasicInformation \in DOMAIN JsonValue.v \/ DatesBatch \in DOMAIN JsonValue.v))
     => GroupsLifted

\* C10 witness: a grouped answer without "Contact Information" (and without
\* "Dates & Batch") was flattened; the record has the name and the
\* ingredients and no consumerContact.
C10_Witness ==
  /\ Done /\ mode = "text"
  /\ GroupedInput
  /\ DOMAIN JsonValue.v = {BasicInformation, IngredientsNutrition, OtherDetails}
  /\ result.kind = "return"
  /\ Get(result.value, "name") = Str("Tea")
  /\ Get(result.value, "ingredients") = Arr(<<Str("Cocoa"), Str("Sugar")>>)
  /\ Get(result.value, "otherDetails") = Origin
  /\ Get(result.value, "consumerContact") = Undef

-----------------------------------------------------------------------------
(* Flat input                                                              *)

\* The object has no group under heading g.
LacksGroup(data, g) == g \notin DOMAIN data.v \/ Get(data, g) = Null

\* The raw object is flat in the sense of C11: a non-empty name or company at
\* top level, or neither a "Basic Information" nor a "Dates & Batch" group.
FlatInput ==
  /\ HasJson
  /\ JsonValue.t = "obj"
  /\ \/ (IsString(Get(JsonValue, "name")) /\ Get(JsonValue, "name") # Str(""))
     \/ (IsString(Get(JsonValue, "company")) /\ Get(JsonValue, "company") # Str(""))
     \/ (LacksGroup(JsonValue, BasicInformation) /\ LacksGroup(JsonValue, DatesBatch))

\* C11: flattenNestedData is the identity on flat input: for a raw object with
\* a non-empty top-level name or company, or with neither a "Basic
\* Information" nor a "Dates & Batch" group, the result is the same object,
\* no key added, removed or changed.
C11_FlatInputUnchanged ==
  (Done /\ mode # "none" /\ FlatInput) => flattened = JsonValue

\* C11 witness: an object with a top-level company and a "Basic Information"
\* group as well was returned as it came, heading included.
C11_Witness ==
  /\ Done /\ mode = "text" /\ FlatInput
  /\ Get(JsonValue, "company") = Str("Acme")
  /\ Get(JsonValue, BasicInformation) = Obj("name" :> Str("Tea"))
  /\ flattened = JsonValue
  /\ BasicInformation \in DOMAIN flattened.v
  /\ "name" \notin DOMAIN flattened.v

-----------------------------------------------------------------------------
(* Upstream failure and empty answer at the HTTP boundary                  *)

\* A text-mode request with a credential has been answered by the route.
TextRequestAnswered ==
  Done /\ caller = "route" /\ mode = "text" /\ Truthy(apiKey)

\* The response the same request gets when the model answers the empty JSON
\* object.
NothingFoundResponse ==
  TextResponse(ParseBody(Resolved(JsonText(EmptyObject))), ocrText)

\* C12: for a text-mode request with a credential, the response of a run in
\* which the gateway call fails is never the response of the run in which the
\* model returns an empty JSON object: the first carries a failure code, the
\* second does not.
C12_FailureDistinguishable ==
  (TextRequestAnswered /\ gatewayOutcome.kind = "rejected")
     => /\ OnTheWire(response) # OnTheWire(NothingFoundResponse)
        /\ Get(OnTheWire(response).body, "code") # Undef
        /\ Get(OnTheWire(NothingFoundResponse).body, "code") = Undef

-----------------------------------------------------------------------------
(* Advisory message and raw text                                           *)

\* Why a text-mode request was not turned into AI-parsed data.
FailureKind ==
  IF ~Truthy(apiKey) THEN "no_key"
  ELSE IF gatewayOutcome.status = 404 THEN "not_found"
  ELSE IF IsAuthError(gatewayOutcome) THEN "auth"
  ELSE IF IsQuotaError(gatewayOutcome) THEN "quota"
  ELSE "other"

\* The advisory message the route has for each kind (route.ts:37, 61, 77, 93,
\* 106).
Advisory(kind) ==
  CASE kind = "no_key" -> Get(NoKeyTextResponse(ocrText).body, "message")
    [] kind = "not_found" -> Get(TextResponse(Thrown("", 404, ""), ocrText).body, "message")
    [] kind = "auth" -> Get(TextResponse(Thrown("", 401, ""), ocrText).body, "message")
    [] kind = "quota" -> Get(TextResponse(Thrown("", 429, ""), ocrText).body, "message")
    [] OTHER -> Get(TextResponse(Thrown("", 500, ""), ocrText).body, "message")

\* A text-mode request was answered without AI-parsed data: the credential is
\* absent, or the gateway call failed.
TextNotParsed ==
  /\ Done /\ caller = "route" /\ HasOcrText(ocrText)
  /\ ~Truthy(apiKey) \/ gatewayOutcome.kind = "rejected"

\* C13: whenever a text-mode request cannot be turned into AI-parsed data
\* (credential absent, or the gateway fails with an authentication, quota,
\* not-found or other error), the response carries the advisory message of
\* that failure kind and a rawText equal to the submitted OCR text verbatim.
C13_AdvisoryAndRawText ==
  TextNotParsed
     => /\ IsString(Get(response.body, "message"))
        /\ Get(response.body, "message") = Advisory(FailureKind)
        /\ Get(Get(response.body, "data"), "rawText") = ocrText

-----------------------------------------------------------------------------
(* One request per call                                                    *)

\* C14: a call of parseProductText / parseProductImage with a credential
\* issues exactly one chat/completion request and never a second one,
\* whatever the outcome of the first: the request is out while the call
\* awaits it, and when the call has completed (gateway failure, empty
\* content, unparsable content, validation failure or success) the count is
\* still one.
C14_ExactlyOneRequest ==
  /\ gatewayCalls <= 1
  /\ pc = "awaitGateway" => gatewayCalls = 1
  /\ (Done /\ mode # "none" /\ Truthy(apiKey)) => gatewayCalls = 1

\* C14 witness: parseProductImage was called with a credential, the gateway
\* call was rejected, the call completed with one request issued.
C14_Witness ==
  /\ Done /\ mode = "image" /\ Truthy(apiKey)
  /\ gatewayOutcome.kind = "rejected"
  /\ result = Returned(EmptyRecord)
  /\ gatewayCalls = 1

-----------------------------------------------------------------------------
(* One input per invocation                                                *)

\* The invocation of POST is in, or has been through, parseProductImage
\* (or the base64 conversion that precedes it).
ImagePathTaken == mode = "image" \/ pc = "awaitBase64"

-----------------------------------------------------------------------------
(* Independence of concurrent invocations                                  *)

\* The completion of a call run alone on the same input with the same
\* gateway response.
AloneResult(c) ==
  IF Truthy(c.apiKey) THEN ParseBody(c.gatewayOutcome)
  ELSE IF c.caller = "direct" THEN Thrown("OpenRouter API key is required", 0, "")
  ELSE NoResult

AloneResponse(c) ==
  IF c.caller # "route" THEN NoResponse
  ELSE IF Truthy(c.apiKey) THEN TextResponse(ParseBody(c.gatewayOutcome), c.ocrText)
  ELSE NoKeyTextResponse(c.ocrText)

\* C16: concurrent invocations share no mutable state.  In every interleaving
\* of the calls, what a completed call returned is what it returns when run
\* alone on its own input and its own gateway response, and a step of one
\* call leaves the state of every other call as it was.
C16_InvocationsIndependent ==
  /\ [](\A i \in Invocations :
          calls[i].pc = "done" =>
             /\ calls[i].result = AloneResult(calls[i])
             /\ calls[i].response = AloneResponse(calls[i]))
  /\ [][\A i \in Invocations :
          calls'[i] # calls[i] => \A j \in Invocations \ {i} : calls'[j] = calls[j]]_vars

\* C16 witness: two calls overlapped and completed with different records,
\* one after a gateway failure, the other with the product the model found.
C16_Witness ==
  /\ calls[1].pc = "done" /\ calls[2].pc = "done"
  /\ calls[1].caller = "direct" /\ calls[1].gatewayOutcome.kind = "rejected"
  /\ calls[1].result = Returned(EmptyRecord)
  /\ calls[2].caller = "route" /\ calls[2].gatewayOutcome.kind = "resolved"
  /\ Get(Get(calls[2].response.body, "data"), "name") = Str("Choco Bar")

-----------------------------------------------------------------------------
(* Vision fallback of the scan flow                                        *)

\* On-device OCR failed: extractText rejected.
OcrFailed == IsThrow(client.ocr)

\* The text-parsing attempt hit an exceeded quota: the gateway call made for
\* the text request was rejected with a quota error.
TextHitQuota ==
  /\ Len(sent) > 0 /\ sent[1].ocrText # Null
  /\ client.textOutcome.kind = "rejected"
  /\ IsQuotaError(client.textOutcome)

\* C17: in the scan flow run against route POST, the Vision path is the
\* fallback whenever on-device OCR fails or the text-parsing attempt hits an
\* exceeded quota: when the flow has finished after OCR failed, a request
\* carrying only the image was sent; when it has finished after the text
\* request hit the quota, a second request carrying only the image was sent.
C17_VisionFallback ==
  client.pc = "finished"
     => /\ OcrFailed => (\E n \in 1..Len(sent) :
                            sent[n].ocrText = Null /\ sent[n].image # "none")
        /\ TextHitQuota => (Len(sent) = 2 /\ sent[2].ocrText = Null
                            /\ sent[2].image # "none")

-----------------------------------------------------------------------------
(* Keys of the returned record                                             *)

\* C18: the raw model output is not exposed past normalization: every record
\* returned by parseProductText / parseProductImage has only canonical field
\* names (19 of them) as top-level keys; no group heading and no other key of
\* the model output appears in it.
C18_OnlyCanonicalKeys ==
  /\ Cardinality(CanonicalFields) = 19
  /\ (Parsed /\ mode # "none")
        => /\ result.value.t = "obj"
           /\ DOMAIN result.value.v \subseteq CanonicalFields
           /\ DOMAIN result.value.v \cap GroupKeys = {}

\* C18 witness: the model answered a valid flat object that also has a
\* "Contact Information" heading; the record has the name and not the
\* heading.
C18_Witness ==
  /\ Parsed /\ mode = "text" /\ HasJson /\ JsonValue.t = "obj"
  /\ ContactInformation \in DOMAIN JsonValue.v
  /\ ContactInformation \in DOMAIN flattened.v
  /\ ProductSchema_safeParse(flattened).success
  /\ Get(result.value, "name") = Str("Choco Bar")
  /\ ContactInformation \notin DOMAIN result.value.v

-----------------------------------------------------------------------------
(* Falsy children of a group                                               *)

MergedGroups == {BasicInformation, DatesBatch}
LiftedGroups == GroupKeys \ MergedGroups

\* The model answered a grouped object that flattenNestedData rebuilds: no
\* name or company at top level and a "Basic Information" or "Dates & Batch"
\* group.
RebuiltInput ==
  /\ GroupedInput
  /\ MergedGroups \cap DOMAIN JsonValue.v # {}

\* Every child of a group of G whose value is falsy has no entry in the
\* flattened result, unless another group provides the key.
FalsyChildrenAbsent(G) ==
  \A g \in G \cap DOMAIN JsonValue.v :
     \A k \in DOMAIN Group(g).v :
        (/\ ~Truthy(Group(g).v[k])
         /\ \A h \in (GroupKeys \cap DOMAIN JsonValue.v) \ {g} : ~Truthy(Get(Group(h), k)))
           => k \notin DOMAIN flattened.v

\* C19 as stated: inside every recognised group, "Basic Information" and
\* "Dates & Batch" included, a key present with a falsy value (null, "", 0,
\* false) is treated as absent: the flattened result has no entry for it.
C19_FalsyChildAbsentInEveryGroup ==
  (Done /\ mode # "none" /\ RebuiltInput) => FalsyChildrenAbsent(GroupKeys)

\* C19 (amended): inside the four groups whose children are lifted one by one
\* ("Ingredients & Nutrition", "Manufacturing & Regulatory", "Contact
\* Information", "Other Details") a key present with a falsy value has no
\* entry in the flattened result.
C19_FalsyChildAbsentInLiftedGroups ==
  (Done /\ mode # "none" /\ RebuiltInput) => FalsyChildrenAbsent(LiftedGroups)

\* C19 witness: "Manufacturing & Regulatory" came with vegetarian: false and
\* fssaiLicense: 12; the flattened object has the licence and no vegetarian.
C19_Witness ==
  /\ Done /\ mode = "text" /\ RebuiltInput
  /\ Group(ManufacturingRegulatory) =
        Obj(("fssaiLicense" :> Num(12)) @@ ("vegetarian" :> Bool(FALSE)))
  /\ Get(flattened, "fssaiLicense") = Str("12")
  /\ "vegetarian" \notin DOMAIN flattened.v

-----------------------------------------------------------------------------
(* Order of the stages                                                     *)

StageOrder == <<"gateway", "decode", "normalize", "validate">>

\* The stages the completed call has run.
StagesRun == StagesOf(ocrText, gatewayOutcome)

\* One of the stages raised.
Raised == StageRaised(StagesRun[Len(StagesRun)])

\* The stages ran in the fixed order, each at most once, each after the
\* previous one had completed and on its output alone; the value of
\* `flattened` is the normalizer's output and the record is made from the
\* validator's verdict on it, or, when a stage raised, is the record of the
\* failure path.
StagesInOrder ==
  LET tr == StagesRun
  IN /\ Len(tr) \in 1..4
     /\ \A n \in 1..Len(tr) : tr[n].stage = StageOrder[n]
     /\ \A n \in 2..Len(tr) : ~StageRaised(tr[n - 1]) /\ tr[n].in = tr[n - 1].out
     /\ Len(tr) < 4 => Raised
     /\ IF Raised
        THEN IsThrow(flattened) /\ result = Returned(EmptyRecord)
        ELSE /\ flattened = tr[3].out
             /\ result.kind = "return"
             /\ result.value = IF tr[4].out.success THEN tr[4].out.data
                               ELSE BestEffortRecord(tr[3].out)

\* A call with a credential has completed.
CallCompleted == Done /\ mode # "none" /\ Truthy(apiKey)

-----------------------------------------------------------------------------
(* No stage modifies what it was given                                     *)

\* A call completed after the gateway answered a JSON object.
ObjectAnswered == CallCompleted /\ HasJson /\ JsonValue.t = "obj"

\* C21: no pipeline stage modifies an object it was given.  After
\* flattenNestedData the parsed object holds what it held before, and a
\* grouped input has been copied into a new object; validation and
\* best-effort extraction leave the flattened object as it was; and the
\* returned record holds after the last step of the invocation what it held
\* when it was built.
C21_StagesLeaveInputsUnchanged ==
  ObjectAnswered
     => LET flattening == FlattenWrites(JsonValue)
            validating == ValidateWrites(flattened)
            all == flattening \o validating \o RouteWrites
            flat == FlattenReturns(JsonValue)
        IN /\ StoreAfter("parsed", JsonValue.v, flattening) = JsonValue.v
           /\ StoreAfter("parsed", JsonValue.v, all) = JsonValue.v
           /\ flat = "flattened" => flattened.v = StoreAfter("flattened", << >>, flattening)
           /\ StoreAfter(flat, flattened.v, validating \o RouteWrites) = flattened.v
           /\ result.value.v = StoreAfter("record", << >>, validating)
           /\ result.value.v = StoreAfter("record", << >>, all)

\* C21 witness: a grouped answer was flattened into a new object with the
\* lifted name; the parsed object still has its headings and no name.
C21_Witness ==
  /\ ObjectAnswered /\ RebuiltInput
  /\ FlattenReturns(JsonValue) = "flattened"
  /\ Len(FlattenWrites(JsonValue)) = 5
  /\ Get(flattened, "name") = Str("Tea")
  /\ "name" \notin DOMAIN StoreAfter("parsed", JsonValue.v, FlattenWrites(JsonValue))
  /\ BasicInformation \in DOMAIN StoreAfter("parsed", JsonValue.v, FlattenWrites(JsonValue))

-----------------------------------------------------------------------------
(* Flat and grouped representation                                         *)

\* The flat object holding at top level the fields a grouped object holds
\* under its headings.
FlatOf(x) ==
  Obj([k \in UNION {DOMAIN Group(g).v : g \in GroupKeys \cap DOMAIN x.v} |->
         Group(HeadingOfField(k)).v[k]])

\* The fields of two records are the same.
SameRecord(a, b) == \A k \in CanonicalFields : Get(a, k) = Get(b, k)

\* The record a call returns when the model answers the JSON object x.
RecordOf(x) == ParseBody(Resolved(JsonText(x))).value

TextOf(v) ==
  CASE v.t = "bool" -> IF v.v THEN "true" ELSE "false"
    [] v.t = "num" -> ToString(v.v)
    [] OTHER -> v.v

\* The values of the fields of the four lifted groups are ones the two
\* representations can agree on: fssaiLicense a string or a sequence of
\* strings, vegetarian a string, boolean or number.
LiftedValuesPlain(x) ==
  LET m == Get(x, ManufacturingRegulatory)
  IN /\ (IsString(Get(m, "fssaiLicense")) \/ IsStringSeq(Get(m, "fssaiLicense"))
         \/ ~Truthy(Get(m, "fssaiLicense")))
     /\ Get(m, "vegetarian").t \in {"undef", "null", "str", "bool", "num"}

\* The flat object with the fields of the four lifted groups brought to the
\* form the grouped representation gives them: empty and falsy values left
\* out, a sequence of licences joined with ", ", vegetarian as text.
Converted(flat) ==
  LET dropped == {k \in DOMAIN flat.v :
                    k \notin BasicFields \cup DateFields /\ ~Truthy(flat.v[k])}
  IN Obj([k \in DOMAIN flat.v \ dropped |->
            IF k = "fssaiLicense" /\ flat.v[k].t = "arr" THEN Str(CommaJoined(flat.v[k].v))
            ELSE IF k = "vegetarian" THEN Str(TextOf(flat.v[k]))
            ELSE flat.v[k]])

-----------------------------------------------------------------------------
(* Idempotence of flattening                                               *)

\* flattenNestedData returned a value for the decoded JSON.
Flattened == CallCompleted /\ HasJson /\ ~IsThrow(flattened)

\* C23 as stated: flattenNestedData is idempotent on every input, grouped
\* inputs included, also when the children of a group use group-heading
\* names as keys: flattening the flattened value gives the flattened value.
C23_FlattenIdempotent ==
  Flattened => flattenNestedData(flattened) = flattened

\* No child of "Basic Information" or "Dates & Batch" is itself named
\* "Basic Information" or "Dates & Batch".
NoMergedHeadingAmongChildren ==
  \A g \in MergedGroups :
     Get(JsonValue, g).t = "obj" => DOMAIN Get(JsonValue, g).v \cap MergedGroups = {}

\* C23 (amended): flattenNestedData is idempotent on every input in which no
\* child of "Basic Information" or "Dates & Batch" is named "Basic
\* Information" or "Dates & Batch".
C23_FlattenIdempotentWithoutNestedHeadings ==
  (Flattened /\ NoMergedHeadingAmongChildren)
     => flattenNestedData(flattened) = flattened

\* C23 witness: a grouped answer was rebuilt, and the rebuilt object, which
\* has neither name nor company, flattens to itself.
C23_Witness ==
  /\ Flattened /\ RebuiltInput /\ NoMergedHeadingAmongChildren
  /\ flattened # JsonValue
  /\ ~Truthy(Get(flattened, "name")) /\ ~Truthy(Get(flattened, "company"))
  /\ Get(flattened, "mrp") = Str("Rs 50")
  /\ Get(flattened, "otherDetails") = Origin
  /\ flattenNestedData(flattened) = flattened

-----------------------------------------------------------------------------
(* Text and image post-processing                                          *)

\* C24: parseProductText and parseProductImage apply the same
\* post-processing: whatever the gateway outcome of a completed call
\* (content, no content, exception), the function that ran returned the
\* record both functions return for that outcome.
C24_SamePostProcessing ==
  CallCompleted
     => /\ result = ParseBody(gatewayOutcome)
        /\ result = ParseImageBody(gatewayOutcome)

\* C24 witness: parseProductImage got an object that fails validation and
\* returned the best-effort record parseProductText returns for it.
C24_Witness ==
  /\ CallCompleted /\ mode = "image" /\ HasJson /\ JsonValue.t = "obj"
  /\ ~ProductSchema_safeParse(flattened).success
  /\ Get(result.value, "name") = Num(5)
  /\ Get(result.value, "mrp") = Str("Rs 50")
  /\ result = ParseBody(gatewayOutcome)

-----------------------------------------------------------------------------
(* The 400 error of a request without input                                *)

\* C25: POST answers with the 400 error 'No image file or OCR text provided'
\* only when the request carries neither a non-blank ocrText nor an image
\* file; a request that carries an image and runs with a configured
\* credential never receives it, whatever the gateway returns.
C25_NothingProvidedOnlyWithoutInput ==
  (Done /\ caller = "route" /\ response = NothingProvided)
     => (~HasOcrText(ocrText) /\ ~file)

-----------------------------------------------------------------------------
(* The OCR worker cache                                                    *)

\* The workers that exist: created and not terminated.
LiveWorkers == {w \in WorkerIds : ocr.state[w] = "live"}

\* The calls that have received a worker from initOCRWorker.
Served == {p \in OcrProcs : ocr.procs[p].op = "extract"
                              /\ ocr.procs[p].pc \in {"awaitInit", "awaitRecognize", "done"}}

\* C26: the cache holds a single worker.  As long as no cleanup has been
\* called, under any interleaving of extractText calls at most one worker
\* has been created, every call has received that worker, and every worker
\* that exists is the cached one.
C26_SingleWorker ==
  ocr.cleanups = 0
     => /\ ocr.created <= 1
        /\ \A p, q \in Served : ocr.procs[p].w = ocr.procs[q].w
        /\ \A w \in LiveWorkers : ocr.worker = w

\* C27: a terminated worker is never used and never terminated twice.  Under
\* any interleaving of extractText and cleanupOCRWorker calls, recognize is
\* not called on, and does not run on, a worker whose terminate has been
\* called, and terminate is called at most once on a worker.
C27_TerminatedWorkerNotUsed ==
  /\ \A p \in OcrProcs :
        ocr.procs[p].pc = "awaitRecognize"
           => ocr.state[ocr.procs[p].w] \notin {"terminating", "terminated"}
  /\ \A w \in WorkerIds : ocr.terminates[w] <= 1

-----------------------------------------------------------------------------
(* The scan flow's end                                                     *)

\* C28: every processImage invocation whose compression, OCR and fetch steps
\* settle eventually finishes, with isScanning = false and ocrProgress = 0,
\* whether it succeeded after the text request, succeeded after the Vision
\* request or failed; and it sends at most two requests to /api/scan.
C28_ScanFinishes ==
  /\ [](Len(sent) <= 2)
  /\ [](client.pc = "finished" => ~client.isScanning /\ client.ocrProgress = 0)
  /\ (client.pc # "idle"
        ~> (client.pc = "finished" /\ ~client.isScanning /\ client.ocrProgress = 0))

\* A scan has finished with an error after both of its requests.
C28_Witness ==
  /\ client.pc = "finished"
  /\ Len(sent) = 2
  /\ client.error # Null
  /\ client.productData = Null
  /\ ~client.isScanning

-----------------------------------------------------------------------------
(* Overlapping scans                                                       *)

InFlight == {i \in ScanIds : scans.runs[i].pc \notin {"idle", "finished"}}

\* The invocation started last.
LatestScan == CHOOSE i \in ScanIds : scans.runs[i].seq = scans.started

\* C29: when processImage invocations overlap, isScanning is true as long as
\* one of them is in flight, and once all have finished the productData
\* displayed is the result of the invocation started last.
C29_LatestScanWins ==
  /\ InFlight # {} => scans.isScanning
  /\ (scans.started > 0 /\ InFlight = {})
        => scans.productData = IF scans.runs[LatestScan].ok THEN LatestScan ELSE 0

-----------------------------------------------------------------------------
(* The camera                                                              *)

LiveStreams == {n \in StreamIds : camera.streams[n] = "live"}

\* isStreaming = true implies that streamRef holds a stream with live tracks.
StreamingHasLiveStream ==
  camera.isStreaming => camera.streamRef # 0 /\ camera.streamRef \in LiveStreams

\* C30: the camera never leaks a live stream.  While isStreaming is true
\* streamRef holds a stream with live tracks; and after stopCamera or the
\* unmount, once the getUserMedia calls that were pending have settled,
\* every stream the component acquired has had its tracks stopped.
C30_NoLiveStreamLeft ==
  /\ StreamingHasLiveStream
  /\ (camera.stopped /\ camera.pending = 0) => LiveStreams = {}

====
